---- MODULE Spec2Model ----
(***************************************************************************)
(* Schedule-conformance analysis of the Critical Path visual: the graph    *)
(* indexer (transformDataOptimized), the cycle detector, the schedule      *)
(* analysis run in-thread (runScheduleAnalysis), the task-scoped           *)
(* classification, the web worker's message handler (src/cpmWorker.ts) and *)
(* the caller's asynchronous protocol with that worker.                    *)
(*                                                                         *)
(* Time.  Every time value is an integer number of ticks; one tick is the  *)
(* visual's float tolerance (0.001 day), so a difference of one tick is    *)
(* "within tolerance" and a difference of two ticks is not.  Quantities    *)
(* the code keeps in days (earlyStart, lag, totalFloat, ...) are kept in   *)
(* ticks here, which scales both sides of every comparison alike.          *)
(***************************************************************************)
EXTENDS Integers, Sequences, FiniteSets, TLC

----------------------------------------------------------------------------
(* Bounds of the model *)

MaxStart == 2
MaxDur == 1
MaxUpdates == 2
MaxThreshold == 2

----------------------------------------------------------------------------
(* JavaScript values that are not finite numbers.  Finite numbers of the   *)
(* model stay far below Infinity; NaN, Undefined and Null are sentinels    *)
(* that the Js* operators below treat as JavaScript does.                  *)

Infinity == 1000
NaN == 2000
Undefined == 3000
Null == 4000

FloatTol == 1

IsNaNJs(x) == x = NaN \/ x = Undefined

IsFiniteJs(x) == x # Infinity /\ x # 0 - Infinity /\ x # NaN /\ x # Undefined

JsAdd(a, b) ==
  IF IsNaNJs(a) \/ IsNaNJs(b) THEN NaN
  ELSE IF a = Infinity THEN (IF b = 0 - Infinity THEN NaN ELSE Infinity)
  ELSE IF a = 0 - Infinity THEN (IF b = Infinity THEN NaN ELSE 0 - Infinity)
  ELSE IF b = Infinity \/ b = 0 - Infinity THEN b
  ELSE a + b

JsNeg(a) == IF IsNaNJs(a) THEN NaN ELSE 0 - a

JsSub(a, b) == JsAdd(a, JsNeg(b))

JsMax(a, b) ==
  IF IsNaNJs(a) \/ IsNaNJs(b) THEN NaN ELSE IF a >= b THEN a ELSE b

JsMin(a, b) ==
  IF IsNaNJs(a) \/ IsNaNJs(b) THEN NaN ELSE IF a <= b THEN a ELSE b

JsAbs(a) == IF IsNaNJs(a) THEN NaN ELSE IF a < 0 THEN 0 - a ELSE a

JsLe(a, b) == ~IsNaNJs(a) /\ ~IsNaNJs(b) /\ a <= b

JsLt(a, b) == ~IsNaNJs(a) /\ ~IsNaNJs(b) /\ a < b

JsGt(a, b) == ~IsNaNJs(a) /\ ~IsNaNJs(b) /\ a > b

(* lag ?? 0 : only null and undefined are replaced *)
Coalesce0(x) == IF x = Null \/ x = Undefined THEN 0 ELSE x

(* lag || 0 : every falsy value (null, undefined, NaN, 0) is replaced *)
OrZero(x) == IF x = Null \/ x = Undefined \/ x = NaN THEN 0 ELSE x

----------------------------------------------------------------------------
(* Small sequence helpers *)

Range(s) == { s[i] : i \in 1..Len(s) }

RECURSIVE Flatten(_)
Flatten(ss) == IF ss = <<>> THEN <<>> ELSE Head(ss) \o Flatten(Tail(ss))

RECURSIVE Reverse(_)
Reverse(s) == IF s = <<>> THEN <<>> ELSE Append(Reverse(Tail(s)), Head(s))

RECURSIVE SetToSeq(_)
SetToSeq(S) ==
  IF S = {} THEN <<>>
  ELSE LET x == CHOOSE y \in S : TRUE IN <<x>> \o SetToSeq(S \ {x})

----------------------------------------------------------------------------
(* Graph indexer: transformDataOptimized and createTaskFromRow.            *)
(* A row of the data view is                                               *)
(*   [taskId, startDate, finishDate, predecessorId, relationshipType,      *)
(*    relationshipFreeFloat, relationshipLag]                              *)
(* with predecessorId = "" for a row without predecessor and Null for a    *)
(* number the row does not give.                                           *)

RelTypes == {"FS", "SS", "FF", "SF"}

NormRelType(raw) == IF raw \in RelTypes THEN raw ELSE "FS"

ParseNumber(raw) == IF raw = Null \/ ~IsFiniteJs(raw) THEN Null ELSE raw

(* keys of taskDataMap, in insertion order *)
RECURSIVE TaskDataKeys(_)
TaskDataKeys(rows) ==
  IF rows = <<>> THEN <<>>
  ELSE LET rest == TaskDataKeys(SubSeq(rows, 1, Len(rows) - 1))
           id == rows[Len(rows)].taskId
       IN IF id \in Range(rest) THEN rest ELSE Append(rest, id)

(* the predecessor filter of the single pass: a row contributes a          *)
(* relationship when it names a predecessor other than the task itself     *)
KeepsPredecessor(predId, taskId) == predId # "" /\ predId # taskId

(* AddRelationship that lets a later row for the same predecessor replace  *)
(* the relationship already kept; C17_RelationshipDeduplication tells the  *)
(* two apart                                                               *)
AddRelationshipLastWins(acc, row) ==
  LET rel == [predId |-> row.predecessorId,
              relType |-> NormRelType(row.relationshipType),
              freeFloat |-> ParseNumber(row.relationshipFreeFloat),
              lag |-> ParseNumber(row.relationshipLag)]
  IN IF \E i \in 1..Len(acc) : acc[i].predId = row.predecessorId
     THEN [i \in 1..Len(acc) |->
             IF acc[i].predId = row.predecessorId THEN rel ELSE acc[i]]
     ELSE Append(acc, rel)

(* the first relationship seen for a predecessor is kept *)
AddRelationship(acc, row) ==
  IF \E i \in 1..Len(acc) : acc[i].predId = row.predecessorId
  THEN acc
  ELSE Append(acc, [predId |-> row.predecessorId,
                    relType |-> NormRelType(row.relationshipType),
                    freeFloat |-> ParseNumber(row.relationshipFreeFloat),
                    lag |-> ParseNumber(row.relationshipLag)])

(* taskData.relationships of one task after the single pass over the rows *)
RECURSIVE TaskDataRelationships(_, _)
TaskDataRelationships(rows, taskId) ==
  IF rows = <<>> THEN <<>>
  ELSE LET acc == TaskDataRelationships(SubSeq(rows, 1, Len(rows) - 1), taskId)
           row == rows[Len(rows)]
       IN IF row.taskId = taskId /\ KeepsPredecessor(row.predecessorId, taskId)
          THEN AddRelationship(acc, row)
          ELSE acc

FirstRowOf(rows, taskId) ==
  rows[CHOOSE i \in 1..Len(rows) :
         /\ rows[i].taskId = taskId
         /\ \A j \in 1..(i - 1) : rows[j].taskId # taskId]

(* createTaskFromRow followed by "apply relationships to task"; an         *)
(* optional field that is absent (undefined) is FALSE for a flag and       *)
(* Undefined for a number                                                  *)
CreateTaskFromRow(row, rels) ==
  LET dur == IF row.finishDate - row.startDate > 0
             THEN row.finishDate - row.startDate ELSE 0
      preds == { rels[i].predId : i \in 1..Len(rels) }
      relOf(p) == rels[CHOOSE i \in 1..Len(rels) : rels[i].predId = p]
  IN [internalId |-> row.taskId,
      startDate |-> row.startDate,
      finishDate |-> row.finishDate,
      duration |-> dur,
      predecessorIds |-> [i \in 1..Len(rels) |-> rels[i].predId],
      relationshipTypes |-> [p \in preds |-> relOf(p).relType],
      relationshipFreeFloats |-> [p \in preds |-> relOf(p).freeFloat],
      relationshipLags |-> [p \in preds |-> relOf(p).lag],
      successors |-> <<>>,
      predecessors |-> <<>>,
      earlyStart |-> 0,
      earlyFinish |-> dur,
      lateStart |-> Infinity,
      lateFinish |-> Infinity,
      totalFloat |-> Infinity,
      violatesConstraints |-> FALSE,
      isCritical |-> FALSE,
      isCriticalByFloat |-> FALSE,
      isCriticalByRel |-> FALSE,
      isNearCritical |-> FALSE,
      earliestReqStart |-> Undefined,
      latestReqFinish |-> Undefined]

RelationshipsOfTask(rels, taskId) ==
  [i \in 1..Len(rels) |->
     [predecessorId |-> rels[i].predId,
      successorId |-> taskId,
      type |-> rels[i].relType,
      freeFloat |-> rels[i].freeFloat,
      lag |-> rels[i].lag,
      isCritical |-> FALSE]]

(* successor ids of a predecessor id, in the order the relationships list  *)
(* has them (successorMap of the indexer, successors of the analyses)      *)
SuccessorIds(rels, id) ==
  LET hits == SelectSeq(rels, LAMBDA r : r.predecessorId = id)
  IN [i \in 1..Len(hits) |-> hits[i].successorId]

TransformDataOptimized(rows) ==
  LET keys == TaskDataKeys(rows)
      ids == Range(keys)
      relsOf == [id \in ids |-> TaskDataRelationships(rows, id)]
      rels == Flatten([i \in 1..Len(keys) |->
                         RelationshipsOfTask(relsOf[keys[i]], keys[i])])
      fresh == [id \in ids |->
                  CreateTaskFromRow(FirstRowOf(rows, id), relsOf[id])]
      indexKeys == ids \cup { rels[i].predecessorId : i \in 1..Len(rels) }
  IN [allTasksData |-> keys,
      relationships |-> rels,
      taskIdToTask |->
        [id \in ids |->
           [fresh[id] EXCEPT
              !.successors = SuccessorIds(rels, id),
              !.predecessors =
                 SelectSeq(fresh[id].predecessorIds, LAMBDA p : p \in ids)]],
      predecessorIndex |->
        [k \in indexKeys |->
           { rels[i].successorId :
               i \in { j \in 1..Len(rels) : rels[j].predecessorId = k } }]]

----------------------------------------------------------------------------
(* Cycle detector: detectAndReportCycles.  The search state is             *)
(* [visited, recursionStack, cyclicTasks, ret]; ret is the value the last  *)
(* call of detectCycleDFS returned.                                        *)

RECURSIVE DetectCycleDFS(_, _, _)
RECURSIVE VisitSuccessors(_, _, _, _)

DetectCycleDFS(taskId, st, tm) ==
  LET entered == [st EXCEPT !.visited = @ \cup {taskId},
                            !.recursionStack = @ \cup {taskId}]
  IN IF taskId \notin DOMAIN tm
     THEN [entered EXCEPT !.recursionStack = @ \ {taskId}, !.ret = FALSE]
     ELSE VisitSuccessors(taskId, 1, entered, tm)

VisitSuccessors(taskId, i, st, tm) ==
  LET succs == tm[taskId].successors
  IN IF i > Len(succs)
     THEN [st EXCEPT !.recursionStack = @ \ {taskId}, !.ret = FALSE]
     ELSE LET succId == succs[i]
          IN IF succId \notin st.visited
             THEN LET r == DetectCycleDFS(succId, st, tm)
                  IN IF r.ret
                     THEN [r EXCEPT !.cyclicTasks = @ \cup {taskId}]
                     ELSE VisitSuccessors(taskId, i + 1, r, tm)
             ELSE IF succId \in st.recursionStack
             THEN [st EXCEPT !.cyclicTasks = @ \cup {taskId, succId},
                             !.ret = TRUE]
             ELSE VisitSuccessors(taskId, i + 1, st, tm)

(* CheckAllTasks that starts the search from the first task of the list    *)
(* only; C20_CycleDetector tells the two apart                             *)
CheckFirstTaskOnly(order, st, tm) ==
  IF order = <<>> THEN st ELSE DetectCycleDFS(Head(order), st, tm)

RECURSIVE CheckAllTasks(_, _, _)
CheckAllTasks(order, st, tm) ==
  IF order = <<>> THEN st
  ELSE IF Head(order) \notin st.visited
       THEN CheckAllTasks(Tail(order), DetectCycleDFS(Head(order), st, tm), tm)
       ELSE CheckAllTasks(Tail(order), st, tm)

DetectAndReportCycles(order, tm) ==
  LET st == CheckAllTasks(order,
                          [visited |-> {}, recursionStack |-> {},
                           cyclicTasks |-> {}, ret |-> FALSE], tm)
  IN [hasCycles |-> st.cyclicTasks # {}, cyclicTasks |-> st.cyclicTasks]

----------------------------------------------------------------------------
(* Schedule analysis run in-thread: runScheduleAnalysis.                   *)

(* base: the earliest start date; earlyStart/earlyFinish are the actual    *)
(* dates as offsets from it                                                *)
BaseDate(order, tm) ==
  LET starts == { tm[order[i]].startDate : i \in 1..Len(order) }
  IN CHOOSE m \in starts : \A x \in starts : m <= x

(* ResetTask that takes the offsets from the offsets the record already    *)
(* holds instead of its dates; C15_Idempotence tells the two apart         *)
ResetTaskFromOffsets(t, base) ==
  LET es == t.earlyStart - base
      ef == t.earlyFinish - base
  IN [t EXCEPT !.earlyStart = es,
               !.earlyFinish = ef,
               !.duration = ef - es,
               !.lateStart = es,
               !.lateFinish = ef,
               !.totalFloat = 0,
               !.isCritical = FALSE,
               !.isCriticalByFloat = FALSE,
               !.isCriticalByRel = FALSE,
               !.isNearCritical = FALSE,
               !.earliestReqStart = es,
               !.latestReqFinish = ef,
               !.violatesConstraints = FALSE]

ResetTask(t, base) ==
  LET es == t.startDate - base
      ef == t.finishDate - base
  IN [t EXCEPT !.earlyStart = es,
               !.earlyFinish = ef,
               !.duration = ef - es,
               !.lateStart = es,
               !.lateFinish = ef,
               !.totalFloat = 0,
               !.isCritical = FALSE,
               !.isCriticalByFloat = FALSE,
               !.isCriticalByRel = FALSE,
               !.isNearCritical = FALSE,
               !.earliestReqStart = es,
               !.latestReqFinish = ef,
               !.violatesConstraints = FALSE]

RelTypeOf(succ, predId) ==
  IF predId \in DOMAIN succ.relationshipTypes
  THEN succ.relationshipTypes[predId] ELSE "FS"

LagOf(succ, predId) ==
  IF predId \in DOMAIN succ.relationshipLags
  THEN Coalesce0(succ.relationshipLags[predId]) ELSE 0

(* ForwardReq with the successor of an FS relationship pushed to the unit  *)
(* after the predecessor's finish, as an inclusive-date reading would do;  *)
(* C1_AlignedSuccessor tells the two apart                                 *)
ForwardReqInclusive(relType, pred, succ, lag) ==
  CASE relType = "FS" -> pred.earlyFinish + lag + 1
    [] relType = "SS" -> pred.earlyStart + lag
    [] relType = "FF" -> pred.earlyFinish - succ.duration + lag
    [] relType = "SF" -> pred.earlyStart - succ.duration + lag
    [] OTHER -> pred.earlyFinish + lag + 1

(* forward pass: the earliest start the relationship pred -> succ requires *)
ForwardReq(relType, pred, succ, lag) ==
  CASE relType = "FS" -> pred.earlyFinish + lag
    [] relType = "SS" -> pred.earlyStart + lag
    [] relType = "FF" -> pred.earlyFinish - succ.duration + lag
    [] relType = "SF" -> pred.earlyStart - succ.duration + lag
    [] OTHER -> pred.earlyFinish + lag

(* backward pass: the latest finish the relationship task -> succ requires *)
BackwardReq(relType, task, succ, lag) ==
  CASE relType = "FS" -> succ.earlyStart - lag
    [] relType = "SS" -> succ.earlyStart - lag + task.duration
    [] relType = "FF" -> succ.earlyFinish - lag
    [] relType = "SF" -> succ.earlyFinish - lag - succ.duration + task.duration
    [] OTHER -> succ.earlyStart - lag

Max2(a, b) == IF a >= b THEN a ELSE b

Min2(a, b) == IF a <= b THEN a ELSE b

(* the initial in-degree of a task: the length of its predecessorIds *)
InitialInDegree(t) == Len(t.predecessorIds)

(* Kahn state: [queue, topo, inDeg, tm] *)
RECURSIVE ForwardOverSuccessors(_, _, _, _)
ForwardOverSuccessors(id, succs, k, rels) ==
  IF succs = <<>> THEN k
  ELSE LET succId == Head(succs)
           succ == k.tm[succId]
           pred == k.tm[id]
           req == Max2(succ.earliestReqStart,
                       ForwardReq(RelTypeOf(succ, id), pred, succ,
                                  LagOf(succ, id)))
           nd == k.inDeg[succId] - 1
       IN ForwardOverSuccessors(id, Tail(succs),
            [k EXCEPT !.tm[succId].earliestReqStart = req,
                      !.inDeg[succId] = nd,
                      !.queue = IF nd = 0 THEN Append(@, succId) ELSE @],
            rels)

RECURSIVE KahnForward(_, _)
KahnForward(k, rels) ==
  IF k.queue = <<>> THEN k
  ELSE LET id == Head(k.queue)
           popped == [k EXCEPT !.queue = Tail(@), !.topo = Append(@, id)]
       IN KahnForward(
            ForwardOverSuccessors(id, SuccessorIds(rels, id), popped, rels),
            rels)

(* LatestReqFinish that does not cap the required finish by the task's    *)
(* own finish; C28_FloatNeverPositive tells the two apart                  *)
LatestReqFinishUncapped(task, tm, rels) ==
  LET succs == SuccessorIds(rels, task.internalId)
      reqs == { BackwardReq(RelTypeOf(tm[succs[i]], task.internalId), task,
                            tm[succs[i]], LagOf(tm[succs[i]], task.internalId)) :
                  i \in 1..Len(succs) }
  IN IF succs = <<>> THEN task.latestReqFinish
     ELSE CHOOSE m \in reqs : \A x \in reqs : m <= x

(* the backward pass on one task of the topological order *)
LatestReqFinish(task, tm, rels) ==
  LET succs == SuccessorIds(rels, task.internalId)
      reqs == { BackwardReq(RelTypeOf(tm[succs[i]], task.internalId), task,
                            tm[succs[i]], LagOf(tm[succs[i]], task.internalId)) :
                  i \in 1..Len(succs) }
  IN IF succs = <<>> THEN task.latestReqFinish
     ELSE LET minFinish == CHOOSE m \in reqs : \A x \in reqs : m <= x
          IN Min2(task.earlyFinish, minFinish)

RECURSIVE BackwardPass(_, _, _)
BackwardPass(revTopo, tm, rels) ==
  IF revTopo = <<>> THEN tm
  ELSE LET id == Head(revTopo)
       IN BackwardPass(Tail(revTopo),
            [tm EXCEPT ![id].latestReqFinish = LatestReqFinish(tm[id], tm, rels)],
            rels)

(* ClassifyTask with the sign of the tolerance lost in the violation test; *)
(* C3_ChainCriticality tells the two apart                                 *)
ClassifyTaskSignLost(t, floatTol, floatThreshold) ==
  LET startSlack == t.earlyStart - t.earliestReqStart
      finishSlack == t.latestReqFinish - t.earlyFinish
      tf == Min2(startSlack, finishSlack)
      lf == t.earlyFinish + Max2(0, tf)
      violates == tf < floatTol
      byFloat == (IF tf < 0 THEN 0 - tf ELSE tf) <= floatTol /\ ~violates
  IN [t EXCEPT !.totalFloat = tf,
               !.lateFinish = lf,
               !.lateStart = lf - t.duration,
               !.violatesConstraints = violates,
               !.isCriticalByFloat = byFloat,
               !.isNearCritical = ~byFloat /\ ~violates /\ tf > floatTol
                                    /\ tf <= floatThreshold,
               !.isCriticalByRel = FALSE,
               !.isCritical = FALSE]

(* ClassifyTask that takes the start slack for the total float;           *)
(* C23_FloatClassification tells the two apart                             *)
ClassifyTaskStartSlackOnly(t, floatTol, floatThreshold) ==
  LET tf == t.earlyStart - t.earliestReqStart
      lf == t.earlyFinish + Max2(0, tf)
      violates == tf < 0 - floatTol
      byFloat == (IF tf < 0 THEN 0 - tf ELSE tf) <= floatTol /\ ~violates
  IN [t EXCEPT !.totalFloat = tf,
               !.lateFinish = lf,
               !.lateStart = lf - t.duration,
               !.violatesConstraints = violates,
               !.isCriticalByFloat = byFloat,
               !.isNearCritical = ~byFloat /\ ~violates /\ tf > floatTol
                                    /\ tf <= floatThreshold,
               !.isCriticalByRel = FALSE,
               !.isCritical = FALSE]

ClassifyTask(t, floatTol, floatThreshold) ==
  LET startSlack == t.earlyStart - t.earliestReqStart
      finishSlack == t.latestReqFinish - t.earlyFinish
      tf == Min2(startSlack, finishSlack)
      lf == t.earlyFinish + Max2(0, tf)
      violates == tf < 0 - floatTol
      byFloat == (IF tf < 0 THEN 0 - tf ELSE tf) <= floatTol /\ ~violates
  IN [t EXCEPT !.totalFloat = tf,
               !.lateFinish = lf,
               !.lateStart = lf - t.duration,
               !.violatesConstraints = violates,
               !.isCriticalByFloat = byFloat,
               !.isNearCritical = ~byFloat /\ ~violates /\ tf > floatTol
                                    /\ tf <= floatThreshold,
               !.isCriticalByRel = FALSE,
               !.isCritical = FALSE]

AbsDiff(a, b) == IF a >= b THEN a - b ELSE b - a

IsDriving(type, pred, succ, lag, floatTol) ==
  CASE type = "FS" -> AbsDiff(pred.earlyFinish + lag, succ.earlyStart) <= floatTol
    [] type = "SS" -> AbsDiff(pred.earlyStart + lag, succ.earlyStart) <= floatTol
    [] type = "FF" -> AbsDiff(pred.earlyFinish + lag, succ.earlyFinish) <= floatTol
    [] type = "SF" -> AbsDiff(pred.earlyStart + lag, succ.earlyFinish) <= floatTol
    [] OTHER -> AbsDiff(pred.earlyFinish + lag, succ.earlyStart) <= floatTol

RelationshipIsCritical(rel, tm, floatTol) ==
  IF rel.predecessorId \notin DOMAIN tm \/ rel.successorId \notin DOMAIN tm
  THEN FALSE
  ELSE IF rel.freeFloat # Null /\ ~IsNaNJs(rel.freeFloat)
  THEN rel.freeFloat <= floatTol
  ELSE /\ IsDriving(rel.type, tm[rel.predecessorId], tm[rel.successorId],
                    OrZero(rel.lag), floatTol)
       /\ tm[rel.predecessorId].isCriticalByFloat
       /\ tm[rel.successorId].isCriticalByFloat

(* TouchesCritical that marks the successor of a critical relationship    *)
(* only; C25_TaskCriticality tells the two apart                           *)
TouchesCriticalAsSuccessor(id, rels) ==
  \E i \in 1..Len(rels) : rels[i].isCritical /\ id = rels[i].successorId

(* a critical relationship marks both of its tasks *)
TouchesCritical(id, rels) ==
  \E i \in 1..Len(rels) :
     /\ rels[i].isCritical
     /\ id \in {rels[i].predecessorId, rels[i].successorId}

(* a task's final flags, byRel telling whether a critical relationship    *)
(* touches it                                                              *)
FinalTask(t, byRel) ==
  [t EXCEPT !.isCriticalByRel = byRel,
            !.isCritical = (t.isCriticalByFloat /\ ~t.violatesConstraints)
                           \/ byRel]

MarkCritical(tm, rels) ==
  [tasks |-> [id \in DOMAIN tm |-> FinalTask(tm[id], TouchesCritical(id, rels))],
   relationships |-> rels]

ClassifyRelationships(tm, rels, floatTol) ==
  MarkCritical(tm,
    [i \in 1..Len(rels) |->
       [rels[i] EXCEPT !.isCritical = RelationshipIsCritical(rels[i], tm, floatTol)]])

ClassifyTasks(tm, floatTol, floatThreshold) ==
  [id \in DOMAIN tm |-> ClassifyTask(tm[id], floatTol, floatThreshold)]

(* the Kahn state before the first dequeue: the tasks of in-degree 0 in    *)
(* the order of the task list                                              *)
KahnStart(order, tm) ==
  LET inDeg == [id \in DOMAIN tm |-> InitialInDegree(tm[id])]
  IN [queue |-> SelectSeq(order, LAMBDA id : inDeg[id] = 0),
      topo |-> <<>>, inDeg |-> inDeg, tm |-> tm]

(* the forward pass in topological order, then the backward pass in the    *)
(* reverse order                                                           *)
ForwardBackward(order, tm, rels) ==
  LET k == KahnForward(KahnStart(order, tm), rels)
  IN BackwardPass(Reverse(k.topo), k.tm, rels)

ResetTasks(order, tm) ==
  LET base == BaseDate(order, tm)
  IN [id \in DOMAIN tm |-> ResetTask(tm[id], base)]

RunScheduleAnalysis(order, tm0, rels0, floatTol, floatThreshold) ==
  IF order = <<>> THEN [tasks |-> tm0, relationships |-> rels0]
  ELSE ClassifyRelationships(
         ClassifyTasks(ForwardBackward(order, ResetTasks(order, tm0), rels0),
                       floatTol, floatThreshold),
         rels0, floatTol)

----------------------------------------------------------------------------
(* Reachability closures: identifyAllPredecessorTasksOptimized and         *)
(* identifyAllSuccessorTasksOptimized.                                     *)

(* BFS state: the queue, the set, and pushed, the log of every id ever     *)
(* put on the queue                                                        *)
RECURSIVE AddUnseen(_, _)
AddUnseen(ids, st) ==
  IF ids = <<>> THEN st
  ELSE IF Head(ids) \in st.seen
       THEN AddUnseen(Tail(ids), st)
       ELSE AddUnseen(Tail(ids),
                      [queue |-> Append(st.queue, Head(ids)),
                       seen |-> st.seen \cup {Head(ids)},
                       pushed |-> Append(st.pushed, Head(ids))])

(* BFSStart that puts the seed on the queue without adding it to the set;  *)
(* C26_ClosureTermination tells the two apart                              *)
BFSStartSeedUnmarked(id) ==
  [queue |-> <<id>>, seen |-> {}, pushed |-> <<id>>]

(* the seed is in the set and on the queue before the loop *)
BFSStart(id) == [queue |-> <<id>>, seen |-> {id}, pushed |-> <<id>>]

RECURSIVE PredecessorBFS(_, _)
PredecessorBFS(st, tm) ==
  IF st.queue = <<>> THEN st
  ELSE LET currentTaskId == Head(st.queue)
           shifted == [st EXCEPT !.queue = Tail(@)]
       IN IF currentTaskId \notin DOMAIN tm
          THEN PredecessorBFS(shifted, tm)
          ELSE PredecessorBFS(
                 AddUnseen(tm[currentTaskId].predecessorIds, shifted), tm)

IdentifyAllPredecessorTasksOptimized(targetTaskId, tm) ==
  PredecessorBFS(BFSStart(targetTaskId), tm).seen

RECURSIVE SuccessorBFS(_, _)
SuccessorBFS(st, index) ==
  IF st.queue = <<>> THEN st
  ELSE LET currentTaskId == Head(st.queue)
           successorIds == IF currentTaskId \in DOMAIN index
                           THEN index[currentTaskId] ELSE {}
       IN SuccessorBFS(
            AddUnseen(SetToSeq(successorIds), [st EXCEPT !.queue = Tail(@)]),
            index)

IdentifyAllSuccessorTasksOptimized(sourceTaskId, index) ==
  SuccessorBFS(BFSStart(sourceTaskId), index).seen

----------------------------------------------------------------------------
(* Task-scoped classification: calculateFloatAndCriticalityForSubset.      *)

InvalidNumber(x) == x = Undefined \/ x = NaN \/ x = Infinity

(* SubsetFloat with the tasks outside the subset left as the full-project  *)
(* analysis classified them; C12_SubgraphRestriction tells the two apart   *)
SubsetFloatInsideOnly(task, taskSubset, floatTol, floatThreshold) ==
  IF task.internalId \notin taskSubset
  THEN task
  ELSE IF InvalidNumber(task.lateStart) \/ InvalidNumber(task.earlyStart)
  THEN [task EXCEPT !.totalFloat = Infinity,
                    !.isCriticalByFloat = FALSE,
                    !.isNearCritical = FALSE,
                    !.isCriticalByRel = FALSE]
  ELSE LET tf == JsMax(0, JsSub(task.lateStart, task.earlyStart))
           byFloat == JsLe(tf, floatTol)
       IN [task EXCEPT !.totalFloat = tf,
                       !.isCriticalByFloat = byFloat,
                       !.isNearCritical = ~byFloat /\ JsGt(tf, floatTol)
                                            /\ JsLe(tf, floatThreshold),
                       !.isCriticalByRel = FALSE]

(* SubsetFloat that keeps, for the tasks of the subset, the float and the  *)
(* flags of the full-project classification;                               *)
(* C29_ScopedRunsMarkClosure tells the two apart                           *)
SubsetFloatKeepsFull(task, taskSubset, floatTol, floatThreshold) ==
  IF task.internalId \notin taskSubset
  THEN [task EXCEPT !.isCritical = FALSE,
                    !.isCriticalByFloat = FALSE,
                    !.isCriticalByRel = FALSE,
                    !.isNearCritical = FALSE,
                    !.totalFloat = Infinity]
  ELSE [task EXCEPT !.isCriticalByRel = FALSE]

(* first loop: float of the tasks of the subset, from lateStart/earlyStart *)
SubsetFloat(task, taskSubset, floatTol, floatThreshold) ==
  IF task.internalId \notin taskSubset
  THEN [task EXCEPT !.isCritical = FALSE,
                    !.isCriticalByFloat = FALSE,
                    !.isCriticalByRel = FALSE,
                    !.isNearCritical = FALSE,
                    !.totalFloat = Infinity]
  ELSE IF InvalidNumber(task.lateStart) \/ InvalidNumber(task.earlyStart)
  THEN [task EXCEPT !.totalFloat = Infinity,
                    !.isCriticalByFloat = FALSE,
                    !.isNearCritical = FALSE,
                    !.isCriticalByRel = FALSE]
  ELSE LET tf == JsMax(0, JsSub(task.lateStart, task.earlyStart))
           byFloat == JsLe(tf, floatTol)
       IN [task EXCEPT !.totalFloat = tf,
                       !.isCriticalByFloat = byFloat,
                       !.isNearCritical = ~byFloat /\ JsGt(tf, floatTol)
                                            /\ JsLe(tf, floatThreshold),
                       !.isCriticalByRel = FALSE]

JsIsDriving(type, pred, succ, lag, floatTol) ==
  CASE type = "FS" ->
         JsLe(JsAbs(JsSub(JsAdd(pred.earlyFinish, lag), succ.earlyStart)), floatTol)
    [] type = "SS" ->
         JsLe(JsAbs(JsSub(JsAdd(pred.earlyStart, lag), succ.earlyStart)), floatTol)
    [] type = "FF" ->
         JsLe(JsAbs(JsSub(JsAdd(pred.earlyFinish, lag), succ.earlyFinish)), floatTol)
    [] type = "SF" ->
         JsLe(JsAbs(JsSub(JsAdd(pred.earlyStart, lag), succ.earlyFinish)), floatTol)
    [] OTHER ->
         JsLe(JsAbs(JsSub(JsAdd(pred.earlyFinish, lag), succ.earlyStart)), floatTol)

SubsetRelationshipIsCritical(rel, tm, taskSubset, floatTol) ==
  IF \/ rel.predecessorId \notin DOMAIN tm
     \/ rel.successorId \notin DOMAIN tm
     \/ rel.predecessorId \notin taskSubset
     \/ rel.successorId \notin taskSubset
  THEN FALSE
  ELSE LET pred == tm[rel.predecessorId]
           succ == tm[rel.successorId]
       IN IF \/ IsNaNJs(pred.earlyFinish) \/ IsNaNJs(pred.earlyStart)
             \/ IsNaNJs(succ.earlyStart) \/ IsNaNJs(succ.earlyFinish)
          THEN FALSE
          ELSE IF rel.freeFloat # Null /\ ~IsNaNJs(rel.freeFloat)
          THEN rel.freeFloat <= floatTol
          ELSE /\ JsIsDriving(rel.type, pred, succ, OrZero(rel.lag), floatTol)
               /\ pred.isCriticalByFloat
               /\ succ.isCriticalByFloat

SubsetFinal(task, taskSubset, floatTol, floatThreshold) ==
  IF task.internalId \notin taskSubset
  THEN [task EXCEPT !.isCritical = FALSE, !.isNearCritical = FALSE]
  ELSE IF ~InvalidNumber(task.totalFloat)
  THEN LET crit == task.isCriticalByFloat \/ task.isCriticalByRel
       IN [task EXCEPT !.isCritical = crit,
                       !.isNearCritical = ~crit /\ JsGt(task.totalFloat, floatTol)
                                            /\ JsLe(task.totalFloat, floatThreshold)]
  ELSE [task EXCEPT !.isCritical = task.isCriticalByRel,
                    !.isNearCritical = FALSE]

(* ForceTarget that forces the selected task only when its float is a      *)
(* finite number; C13_SeedAlwaysHighlighted tells the two apart            *)
ForceTargetFiniteOnly(task, targetTaskId) ==
  IF task.internalId = targetTaskId /\ ~InvalidNumber(task.totalFloat)
  THEN [task EXCEPT !.isCritical = TRUE, !.isNearCritical = FALSE]
  ELSE task

(* the selected task is always marked critical *)
ForceTarget(task, targetTaskId) ==
  IF task.internalId = targetTaskId
  THEN [task EXCEPT !.isCritical = TRUE, !.isNearCritical = FALSE]
  ELSE task

(* third and fourth loop: the tasks a critical relationship touches, the  *)
(* final flags, the selected task                                          *)
SubsetMarkCritical(tm, rels, taskSubset, targetTaskId, floatTol, floatThreshold) ==
  [tasks |->
     [id \in DOMAIN tm |->
        ForceTarget(
          SubsetFinal([tm[id] EXCEPT !.isCriticalByRel =
                         IF id \in taskSubset /\ TouchesCritical(id, rels)
                         THEN TRUE ELSE @],
                      taskSubset, floatTol, floatThreshold),
          targetTaskId)],
   relationships |-> rels]

(* second loop: the relationships inside the subset *)
SubsetClassifyRelationships(tm, rels, taskSubset, targetTaskId, floatTol, floatThreshold) ==
  SubsetMarkCritical(tm,
    [i \in 1..Len(rels) |->
       [rels[i] EXCEPT !.isCritical =
          SubsetRelationshipIsCritical(rels[i], tm, taskSubset, floatTol)]],
    taskSubset, targetTaskId, floatTol, floatThreshold)

CalculateFloatAndCriticalityForSubset(tm0, rels0, taskSubset, targetTaskId, floatTol, floatThreshold) ==
  SubsetClassifyRelationships(
    [id \in DOMAIN tm0 |->
       SubsetFloat(tm0[id], taskSubset, floatTol, floatThreshold)],
    rels0, taskSubset, targetTaskId, floatTol, floatThreshold)

----------------------------------------------------------------------------
(* The web worker's message handler: self.onmessage of src/cpmWorker.ts.   *)
(* A posted task is a record; a field the caller did not post reads as     *)
(* Undefined, as a missing property does.                                  *)

DurationOf(t) == IF "duration" \in DOMAIN t THEN t.duration ELSE Undefined

WorkerInitTask(t) ==
  [internalId |-> t.internalId,
   duration |-> DurationOf(t),
   relationshipTypes |-> t.relationshipTypes,
   relationshipLags |-> t.relationshipLags,
   earlyStart |-> 0,
   earlyFinish |-> DurationOf(t),
   lateStart |-> Infinity,
   lateFinish |-> Infinity,
   totalFloat |-> Infinity,
   isCritical |-> FALSE,
   isCriticalByFloat |-> FALSE,
   isCriticalByRel |-> FALSE,
   isNearCritical |-> FALSE]

(* predecessors map of the worker: one entry per relationship row *)
WorkerInDegree(id, rels) ==
  Cardinality({ i \in 1..Len(rels) : rels[i].successorId = id })

WorkerForwardStart(relType, curr, succ, lag) ==
  CASE relType = "FS" -> JsAdd(curr.earlyFinish, lag)
    [] relType = "SS" -> JsAdd(curr.earlyStart, lag)
    [] relType = "FF" -> JsAdd(JsSub(curr.earlyFinish, succ.duration), lag)
    [] relType = "SF" -> JsAdd(JsSub(curr.earlyStart, succ.duration), lag)
    [] OTHER -> JsAdd(curr.earlyFinish, lag)

RECURSIVE WorkerOverSuccessors(_, _, _)
WorkerOverSuccessors(id, succs, k) ==
  IF succs = <<>> THEN k
  ELSE LET succId == Head(succs)
           succ == k.tm[succId]
           curr == k.tm[id]
           start == WorkerForwardStart(RelTypeOf(succ, id), curr, succ,
                                       LagOf(succ, id))
           es == JsMax(succ.earlyStart, JsMax(0, start))
           nd == k.inDeg[succId] - 1
       IN WorkerOverSuccessors(id, Tail(succs),
            [k EXCEPT !.tm[succId].earlyStart = es,
                      !.tm[succId].earlyFinish = JsAdd(es, succ.duration),
                      !.inDeg[succId] = nd,
                      !.queue = IF nd = 0 THEN Append(@, succId) ELSE @])

RECURSIVE WorkerKahn(_, _)
WorkerKahn(k, rels) ==
  IF k.queue = <<>> THEN k
  ELSE LET id == Head(k.queue)
           popped == [k EXCEPT !.queue = Tail(@), !.topo = Append(@, id)]
       IN WorkerKahn(WorkerOverSuccessors(id, SuccessorIds(rels, id), popped),
                     rels)

RECURSIVE WorkerProjectEnd(_, _, _)
WorkerProjectEnd(order, tm, m) ==
  IF order = <<>> THEN m
  ELSE LET ef == tm[Head(order)].earlyFinish
       IN WorkerProjectEnd(Tail(order), tm,
                           JsMax(m, IF IsFiniteJs(ef) THEN ef ELSE m))

WorkerSeedLate(t, rels, projectEnd) ==
  IF SuccessorIds(rels, t.internalId) = <<>>
  THEN [t EXCEPT !.lateFinish = projectEnd,
                 !.lateStart = JsMax(0, JsSub(projectEnd, t.duration))]
  ELSE t

WorkerBackwardReq(relType, task, succ, lag) ==
  CASE relType = "FS" -> JsSub(succ.lateStart, lag)
    [] relType = "SS" -> JsAdd(JsSub(succ.lateStart, lag), task.duration)
    [] relType = "FF" -> JsSub(succ.lateFinish, lag)
    [] relType = "SF" ->
         JsAdd(JsSub(JsSub(succ.lateFinish, lag), succ.duration), task.duration)
    [] OTHER -> JsSub(succ.lateStart, lag)

RECURSIVE WorkerMinReq(_, _, _, _)
WorkerMinReq(task, succs, tm, minReq) ==
  IF succs = <<>> THEN minReq
  ELSE LET succ == tm[Head(succs)]
       IN IF ~IsFiniteJs(succ.lateStart) \/ ~IsFiniteJs(succ.lateFinish)
          THEN WorkerMinReq(task, Tail(succs), tm, minReq)
          ELSE LET req == WorkerBackwardReq(RelTypeOf(succ, task.internalId),
                                            task, succ,
                                            LagOf(succ, task.internalId))
               IN WorkerMinReq(task, Tail(succs), tm,
                               IF JsLt(req, minReq) THEN req ELSE minReq)

RECURSIVE WorkerBackward(_, _, _, _)
WorkerBackward(revTopo, tm, rels, projectEnd) ==
  IF revTopo = <<>> THEN tm
  ELSE LET id == Head(revTopo)
           task == tm[id]
           succs == SuccessorIds(rels, id)
           minReq == WorkerMinReq(task, succs, tm, Infinity)
           next ==
             IF succs = <<>> THEN tm
             ELSE IF minReq # Infinity
             THEN [tm EXCEPT ![id].lateFinish = minReq,
                             ![id].lateStart =
                                JsMax(0, JsSub(minReq, task.duration))]
             ELSE IF IsFiniteJs(task.earlyFinish)
             THEN [tm EXCEPT ![id].lateFinish = projectEnd,
                             ![id].lateStart =
                                JsMax(0, JsSub(projectEnd, task.duration))]
             ELSE tm
       IN WorkerBackward(Tail(revTopo), next, rels, projectEnd)

WorkerClassify(t, floatTolerance, floatThreshold) ==
  IF IsFiniteJs(t.lateStart) /\ IsFiniteJs(t.earlyStart)
  THEN LET tf == JsMax(0, JsSub(t.lateStart, t.earlyStart))
           byFloat == JsLe(tf, floatTolerance)
       IN [t EXCEPT !.totalFloat = tf,
                    !.isCriticalByFloat = byFloat,
                    !.isNearCritical = ~byFloat /\ JsGt(tf, floatTolerance)
                                         /\ JsLe(tf, floatThreshold),
                    !.isCriticalByRel = FALSE]
  ELSE [t EXCEPT !.totalFloat = Infinity,
                 !.isCriticalByFloat = FALSE,
                 !.isNearCritical = FALSE,
                 !.isCriticalByRel = FALSE]

WorkerRelationshipIsCritical(rel, tm, floatTolerance) ==
  IF rel.predecessorId \notin DOMAIN tm \/ rel.successorId \notin DOMAIN tm
  THEN FALSE
  ELSE IF rel.freeFloat # Null /\ ~IsNaNJs(rel.freeFloat)
  THEN rel.freeFloat <= floatTolerance
  ELSE /\ JsIsDriving(rel.type, tm[rel.predecessorId],
                      tm[rel.successorId], OrZero(rel.lag), floatTolerance)
       /\ tm[rel.predecessorId].isCriticalByFloat
       /\ tm[rel.successorId].isCriticalByFloat

(* one task of the message the worker posts back; it carries no           *)
(* violatesConstraints                                                     *)
WorkerTaskResult(t, byRel) ==
  [internalId |-> t.internalId,
   earlyStart |-> t.earlyStart,
   earlyFinish |-> t.earlyFinish,
   lateStart |-> t.lateStart,
   lateFinish |-> t.lateFinish,
   totalFloat |-> t.totalFloat,
   isCritical |-> t.isCriticalByFloat \/ byRel,
   isCriticalByFloat |-> t.isCriticalByFloat,
   isCriticalByRel |-> byRel,
   isNearCritical |-> t.isNearCritical]

WorkerByRel(id, rels, relCrit) ==
  \E i \in 1..Len(rels) :
     relCrit[i] /\ id \in {rels[i].predecessorId, rels[i].successorId}

WorkerResult(order, rels, tm, relCrit) ==
  [tasks |->
     [i \in 1..Len(order) |->
        WorkerTaskResult(tm[order[i]], WorkerByRel(order[i], rels, relCrit))],
   relationships |->
     [i \in 1..Len(rels) |->
        [predecessorId |-> rels[i].predecessorId,
         successorId |-> rels[i].successorId,
         isCritical |-> relCrit[i]]]]

WorkerClassifyRelationships(order, rels, tm, floatTolerance) ==
  WorkerResult(order, rels, tm,
    [i \in 1..Len(rels) |->
       WorkerRelationshipIsCritical(rels[i], tm, floatTolerance)])

WorkerClassifyTasks(tm, floatTolerance, floatThreshold) ==
  [id \in DOMAIN tm |-> WorkerClassify(tm[id], floatTolerance, floatThreshold)]

(* the backward pass from the project end *)
WorkerLatePass(revTopo, tm, rels, projectEnd) ==
  WorkerBackward(revTopo,
                 [id \in DOMAIN tm |-> WorkerSeedLate(tm[id], rels, projectEnd)],
                 rels, projectEnd)

(* the forward pass in topological order *)
WorkerEarlyPass(order, tm, rels) ==
  LET inDeg == [id \in DOMAIN tm |-> WorkerInDegree(id, rels)]
  IN WorkerKahn([queue |-> SelectSeq(order, LAMBDA id : inDeg[id] = 0),
                 topo |-> <<>>, inDeg |-> inDeg, tm |-> tm], rels)

WorkerPasses(order, k, rels) ==
  WorkerLatePass(Reverse(k.topo), k.tm, rels, WorkerProjectEnd(order, k.tm, 0))

(* the task the tasks map of the worker holds for an id: the last posted *)
WorkerPosted(tasks, id) ==
  tasks[CHOOSE i \in 1..Len(tasks) :
          /\ tasks[i].internalId = id
          /\ \A j \in (i + 1)..Len(tasks) : tasks[j].internalId # id]

WorkerOrder(tasks) == [i \in 1..Len(tasks) |-> tasks[i].internalId]

WorkerTasks(tasks) ==
  [id \in Range(WorkerOrder(tasks)) |-> WorkerInitTask(WorkerPosted(tasks, id))]

OnMessage(data) ==
  WorkerClassifyRelationships(
    WorkerOrder(data.tasks), data.relationships,
    WorkerClassifyTasks(
      WorkerPasses(WorkerOrder(data.tasks),
                   WorkerEarlyPass(WorkerOrder(data.tasks),
                                   WorkerTasks(data.tasks), data.relationships),
                   data.relationships),
      data.floatTolerance, data.floatThreshold),
    data.floatTolerance)

----------------------------------------------------------------------------
(* The caller: calculateCPM, calculateCPMToTask, calculateCPMFromTask and  *)
(* the message calculateCPMOffThread posts.                                *)

WithCycleError(r, cycleError) ==
  [tasks |-> r.tasks, relationships |-> r.relationships,
   cycleError |-> cycleError]

(* calculateCPM: the cycle gate, then the schedule analysis *)
CalculateCPM(order, tm, rels, floatThreshold) ==
  IF order = <<>>
  THEN [tasks |-> tm, relationships |-> rels, cycleError |-> FALSE]
  ELSE IF DetectAndReportCycles(order, tm).hasCycles
  THEN [tasks |-> tm, relationships |-> rels, cycleError |-> TRUE]
  ELSE WithCycleError(
         RunScheduleAnalysis(order, tm, rels, FloatTol, floatThreshold), FALSE)

(* the closure a task-scoped run restricts criticality to *)
TraceClosure(mode, targetTaskId, tm, index) ==
  IF mode = "forward"
  THEN IdentifyAllSuccessorTasksOptimized(targetTaskId, index)
  ELSE IdentifyAllPredecessorTasksOptimized(targetTaskId, tm)

(* the task-scoped classification on the result of calculateCPM *)
ScopedRun(full, taskSubset, targetTaskId, floatThreshold) ==
  WithCycleError(
    CalculateFloatAndCriticalityForSubset(full.tasks, full.relationships,
                                          taskSubset, targetTaskId, FloatTol,
                                          floatThreshold),
    full.cycleError)

(* calculateCPMToTask (mode "backward") / calculateCPMFromTask ("forward") *)
CalculateCPMTrace(mode, targetTaskId, order, tm, rels, index, floatThreshold) ==
  IF order = <<>> \/ targetTaskId = ""
  THEN CalculateCPM(order, tm, rels, floatThreshold)
  ELSE ScopedRun(CalculateCPM(order, tm, rels, floatThreshold),
                 TraceClosure(mode, targetTaskId, tm, index),
                 targetTaskId, floatThreshold)

(* the snapshot calculateCPMOffThread posts: dates as offsets from the     *)
(* earliest start; no duration is posted                                   *)
WorkerInput(order, tm, rels, floatThreshold) ==
  LET base == BaseDate(order, tm)
  IN [tasks |->
        [i \in 1..Len(order) |->
           [internalId |-> order[i],
            start |-> tm[order[i]].startDate - base,
            finish |-> tm[order[i]].finishDate - base,
            predecessorIds |-> tm[order[i]].predecessorIds,
            relationshipTypes |-> tm[order[i]].relationshipTypes,
            relationshipLags |-> tm[order[i]].relationshipLags]],
      relationships |->
        [i \in 1..Len(rels) |->
           [predecessorId |-> rels[i].predecessorId,
            successorId |-> rels[i].successorId,
            type |-> rels[i].type,
            freeFloat |-> rels[i].freeFloat,
            lag |-> rels[i].lag]],
      floatTolerance |-> FloatTol,
      floatThreshold |-> floatThreshold]

(* the message handler of calculateCPMOffThread applied to the records the *)
(* visual holds when the response arrives; the response has no             *)
(* violatesConstraints, so the task's becomes undefined (falsy)            *)
ApplyTaskResults(tm, results) ==
  [id \in DOMAIN tm |->
     IF \E i \in 1..Len(results) : results[i].internalId = id
     THEN LET res == results[CHOOSE i \in 1..Len(results) :
                               /\ results[i].internalId = id
                               /\ \A j \in (i + 1)..Len(results) :
                                    results[j].internalId # id]
          IN [tm[id] EXCEPT !.earlyStart = res.earlyStart,
                            !.earlyFinish = res.earlyFinish,
                            !.lateStart = res.lateStart,
                            !.lateFinish = res.lateFinish,
                            !.totalFloat = res.totalFloat,
                            !.violatesConstraints = FALSE,
                            !.isCritical = res.isCritical,
                            !.isCriticalByFloat = res.isCriticalByFloat,
                            !.isCriticalByRel = res.isCriticalByRel,
                            !.isNearCritical = res.isNearCritical]
     ELSE tm[id]]

ApplyRelationshipResults(rels, results) ==
  [i \in 1..Len(rels) |->
     LET first == \A j \in 1..(i - 1) :
                     ~(/\ rels[j].predecessorId = rels[i].predecessorId
                       /\ rels[j].successorId = rels[i].successorId)
         hits == { k \in 1..Len(results) :
                     /\ results[k].predecessorId = rels[i].predecessorId
                     /\ results[k].successorId = rels[i].successorId }
     IN IF first /\ hits # {}
        THEN [rels[i] EXCEPT !.isCritical =
                results[CHOOSE k \in hits : \A m \in hits : m <= k].isCritical]
        ELSE rels[i]]

----------------------------------------------------------------------------
(* Data views the host may supply.  A snapshot is built from the dates of  *)
(* the tasks and a sequence of relationship rows [succ, pred, type, lag,   *)
(* freeFloat]; a task without relationship row gets one row of its own.    *)

TaskIds == {"A", "B", "C"}

TaskOrder == <<"A", "B", "C">>

(* an id that names no task *)
UnknownId == "X"

Row(id, dates, e) ==
  [taskId |-> id,
   startDate |-> dates[id][1],
   finishDate |-> dates[id][2],
   predecessorId |-> e.pred,
   relationshipType |-> e.type,
   relationshipFreeFloat |-> e.freeFloat,
   relationshipLag |-> e.lag]

NoEdge == [pred |-> "", type |-> "FS", lag |-> Null, freeFloat |-> Null]

RowsOfTask(id, dates, edges) ==
  LET mine == SelectSeq(edges, LAMBDA e : e.succ = id)
  IN IF mine = <<>> THEN << Row(id, dates, NoEdge) >>
     ELSE [i \in 1..Len(mine) |-> Row(id, dates, mine[i])]

Rows(order, dates, edges) ==
  Flatten([i \in 1..Len(order) |-> RowsOfTask(order[i], dates, edges)])

StartFinish == { <<s, s + d>> : s \in 0..MaxStart, d \in 0..MaxDur }

Edges(succs, preds, types, lags, freeFloats) ==
  [succ : succs, pred : preds, type : types, lag : lags, freeFloat : freeFloats]

----------------------------------------------------------------------------
(* PriorityQueue: a binary heap of records of item and priority, ordered   *)
(* by the comparator given to the constructor.  Indices are the 0-based    *)
(* indices of the code; heap[i + 1] is the code's heap[i].                 *)

Comparators == {"lt", "gt"}

(* this.compare(a, b): (a, b) => a < b by default, (a, b) => a > b *)
Compares(cmp, a, b) == IF cmp = "lt" THEN a < b ELSE a > b

(* the heap with the entries at indices i and j exchanged *)
Exchange(h, i, j) == [h EXCEPT ![i + 1] = h[j + 1], ![j + 1] = h[i + 1]]

RECURSIVE BubbleUp(_, _, _)
BubbleUp(h, index, cmp) ==
  IF index <= 0 THEN h
  ELSE LET parentIndex == (index - 1) \div 2
       IN IF ~Compares(cmp, h[index + 1].priority, h[parentIndex + 1].priority)
          THEN h
          ELSE BubbleUp(Exchange(h, index, parentIndex), parentIndex, cmp)

(* SwapIndex that takes the left child whenever it goes before the        *)
(* element, without comparing the right child with it;                     *)
(* C27_PriorityQueueOrder tells the two apart                              *)
SwapIndexLeftFirst(h, index, cmp) ==
  LET left == 2 * index + 1
      right == 2 * index + 2
      element == h[index + 1]
  IN IF left < Len(h) /\ Compares(cmp, h[left + 1].priority, element.priority)
     THEN left
     ELSE IF right < Len(h)
               /\ Compares(cmp, h[right + 1].priority, element.priority)
     THEN right
     ELSE -1

(* the index bubbleDown swaps the element at index with, -1 for none *)
SwapIndex(h, index, cmp) ==
  LET left == 2 * index + 1
      right == 2 * index + 2
      element == h[index + 1]
      viaLeft == IF left < Len(h)
                      /\ Compares(cmp, h[left + 1].priority, element.priority)
                 THEN left ELSE -1
  IN IF right < Len(h)
     THEN IF viaLeft = -1
          THEN IF Compares(cmp, h[right + 1].priority, element.priority)
               THEN right ELSE viaLeft
          ELSE IF Compares(cmp, h[right + 1].priority, h[left + 1].priority)
               THEN right ELSE viaLeft
     ELSE viaLeft

RECURSIVE BubbleDown(_, _, _)
BubbleDown(h, index, cmp) ==
  IF SwapIndex(h, index, cmp) = -1 THEN h
  ELSE BubbleDown(Exchange(h, index, SwapIndex(h, index, cmp)),
                  SwapIndex(h, index, cmp), cmp)

(* the heap after enqueue(item, priority) *)
EnqueueHeap(h, item, priority, cmp) ==
  BubbleUp(Append(h, [item |-> item, priority |-> priority]), Len(h), cmp)

(* DequeueHeap that pops the end without moving it to the root;            *)
(* C30_PriorityQueueConservation tells the two apart                       *)
DequeueHeapEndDropped(h, cmp) ==
  IF Len(h) = 0 THEN h ELSE SubSeq(h, 1, Len(h) - 1)

(* the heap after dequeue() *)
DequeueHeap(h, cmp) ==
  IF Len(h) = 0 THEN h
  ELSE IF Len(h) = 1 THEN <<>>
  ELSE BubbleDown([SubSeq(h, 1, Len(h) - 1) EXCEPT ![1] = h[Len(h)]], 0, cmp)

(* what dequeue() returns *)
DequeueResult(h) == IF Len(h) = 0 THEN Undefined ELSE h[1].item

(* size() *)
Size(h) == Len(h)

----------------------------------------------------------------------------
(* State of the visual and of its worker                                   *)

VARIABLES
  dataView,          \* rows of the data view of the host's update
  persistedState,    \* settings.persistedState of the report
  isInitialLoad,     \* no update has been handled yet
  updates,           \* number of updates the host has pushed
  allTasksData,      \* task ids, in order
  taskIdToTask,      \* id -> task record
  relationships,     \* relationship records, in order
  predecessorIndex,  \* id -> ids of the tasks that have it as predecessor
  selectedTaskId,    \* "" when no task is selected
  traceMode,         \* "backward" or "forward"
  floatThreshold,
  workerOk,          \* whether the host lets the visual create its worker
  cpmWorker,         \* the worker exists
  listeners,         \* message handlers registered on the worker
  inbox,             \* snapshots posted to the worker, not yet handled
  outbox,            \* responses posted by the worker, not yet delivered
  message,           \* "cycles" when the cycle error is displayed
  lastRun,           \* the analysis the last update ran
  posted,            \* every snapshot posted so far
  delivered,         \* number of responses delivered so far
  overlapped,        \* a snapshot was posted while a response was pending
  heap,              \* PriorityQueue.heap: records of item and priority
  compare,           \* PriorityQueue.compare: "lt" (the default) or "gt"
  calls,             \* number of enqueue and dequeue calls so far
  enqueued,          \* the items enqueued so far, in order
  returned,          \* the items dequeue has returned so far, in order
  lastDequeue        \* the last dequeue call: the heap before and after it,
                     \* and its result

visualVars == << dataView, persistedState, isInitialLoad, updates,
                 allTasksData, taskIdToTask, relationships, predecessorIndex,
                 selectedTaskId, traceMode, floatThreshold, workerOk,
                 cpmWorker, listeners, inbox, outbox, message, lastRun,
                 posted, delivered, overlapped >>

queueVars == << heap, compare, calls, enqueued, returned, lastDequeue >>

vars == << visualVars, queueVars >>

MaxRuns == 2

TraceModes == {"backward", "forward"}

(* a PriorityQueue after construction, no call made yet *)
NewQueue ==
  /\ heap = <<>>
  /\ calls = 0
  /\ enqueued = <<>>
  /\ returned = <<>>
  /\ lastDequeue = [called |-> FALSE, before |-> <<>>, after |-> <<>>,
                    result |-> Undefined]

(* the fields of the visual after construction; the data view, the         *)
(* persisted state and the host's worker policy belong to the report       *)
VisualFields ==
  /\ isInitialLoad = TRUE
  /\ updates = 0
  /\ allTasksData = <<>>
  /\ taskIdToTask = << >>
  /\ relationships = <<>>
  /\ predecessorIndex = << >>
  /\ selectedTaskId = ""
  /\ traceMode = "backward"
  /\ floatThreshold = 0
  /\ cpmWorker = FALSE
  /\ listeners = 0
  /\ inbox = <<>>
  /\ outbox = <<>>
  /\ message = ""
  /\ lastRun = "none"
  /\ posted = <<>>
  /\ delivered = 0
  /\ overlapped = FALSE

(* the visual and the queue of its forward pass, which it constructs with  *)
(* the default comparator                                                  *)
InitVisual == VisualFields /\ NewQueue /\ compare = "lt"

(* the analysis updateInternal dispatches to; an off-thread run leaves     *)
(* the indexed records as they are until the worker answers                *)
Analysis(sel, mode, thr, idx, offThread) ==
  IF sel # ""
  THEN CalculateCPMTrace(mode, sel, idx.allTasksData, idx.taskIdToTask,
                         idx.relationships, idx.predecessorIndex, thr)
  ELSE IF offThread
  THEN [tasks |-> idx.taskIdToTask, relationships |-> idx.relationships,
        cycleError |-> FALSE]
  ELSE CalculateCPM(idx.allTasksData, idx.taskIdToTask, idx.relationships, thr)

(* the fields an update leaves behind *)
CommitUpdate(rows, sel, mode, thr, idx, offThread, r, input) ==
  /\ dataView' = rows
  /\ isInitialLoad' = FALSE
  /\ selectedTaskId' = sel
  /\ traceMode' = mode
  /\ floatThreshold' = thr
  /\ allTasksData' = idx.allTasksData
  /\ predecessorIndex' = idx.predecessorIndex
  /\ taskIdToTask' = r.tasks
  /\ relationships' = r.relationships
  /\ message' = IF r.cycleError THEN "cycles" ELSE ""
  /\ lastRun' = IF sel # ""
                THEN (IF mode = "forward" THEN "fromTask" ELSE "toTask")
                ELSE IF offThread THEN "offThread" ELSE "inThread"
  /\ cpmWorker' = (cpmWorker \/ (sel = "" /\ workerOk))
  /\ listeners' = IF offThread THEN listeners + 1 ELSE listeners
  /\ inbox' = IF offThread THEN Append(inbox, input) ELSE inbox
  /\ posted' = IF offThread THEN Append(posted, input) ELSE posted
  /\ overlapped' = (overlapped \/ (offThread /\ Len(posted) > delivered))
  /\ UNCHANGED << persistedState, workerOk, outbox, delivered, queueVars >>

UpdateIndexed(rows, sel, mode, thr, idx) ==
  LET offThread == sel = "" /\ (cpmWorker \/ workerOk)
  IN /\ offThread => Len(posted) < MaxRuns
     /\ CommitUpdate(rows, sel, mode, thr, idx, offThread,
                     Analysis(sel, mode, thr, idx, offThread),
                     WorkerInput(idx.allTasksData, idx.taskIdToTask,
                                 idx.relationships, thr))

(* updateInternal on a full update: restore the persisted state on the     *)
(* first update, index the rows, then run the analysis the selection asks  *)
(* for                                                                     *)
UpdateInternal(rows, sel, mode) ==
  /\ rows # <<>>
  /\ UpdateIndexed(rows,
                   IF isInitialLoad THEN persistedState.selectedTaskId ELSE sel,
                   IF isInitialLoad THEN persistedState.traceMode ELSE mode,
                   IF isInitialLoad THEN persistedState.floatThreshold
                   ELSE floatThreshold,
                   TransformDataOptimized(rows))

(* the host calls update with a data view *)
HostUpdate(rows) ==
  /\ updates < MaxUpdates
  /\ updates' = updates + 1
  /\ UpdateInternal(rows, selectedTaskId, traceMode)

(* selectTask: selecting the selected task again deselects it *)
SelectTask(id) ==
  /\ ~isInitialLoad
  /\ id \in DOMAIN taskIdToTask
  /\ UpdateInternal(dataView, IF selectedTaskId = id THEN "" ELSE id, traceMode)
  /\ UNCHANGED updates

(* the trace mode buttons *)
SetTraceMode(mode) ==
  /\ ~isInitialLoad
  /\ traceMode # mode
  /\ UpdateInternal(dataView, selectedTaskId, mode)
  /\ UNCHANGED updates

(* the worker handles the oldest posted snapshot *)
WorkerOnMessage ==
  /\ inbox # <<>>
  /\ outbox' = Append(outbox, OnMessage(Head(inbox)))
  /\ inbox' = Tail(inbox)
  /\ UNCHANGED << dataView, persistedState, isInitialLoad, updates,
                  allTasksData, taskIdToTask, relationships, predecessorIndex,
                  selectedTaskId, traceMode, floatThreshold, workerOk,
                  cpmWorker, listeners, message, lastRun, posted, delivered,
                  overlapped, queueVars >>

(* the oldest response reaches the visual: every handler registered at     *)
(* that moment runs on it and removes itself                               *)
DeliverMessage ==
  /\ outbox # <<>>
  /\ outbox' = Tail(outbox)
  /\ delivered' = delivered + 1
  /\ listeners' = 0
  /\ taskIdToTask' = IF listeners > 0
                     THEN ApplyTaskResults(taskIdToTask, Head(outbox).tasks)
                     ELSE taskIdToTask
  /\ relationships' = IF listeners > 0
                      THEN ApplyRelationshipResults(relationships,
                                                    Head(outbox).relationships)
                      ELSE relationships
  /\ UNCHANGED << dataView, persistedState, isInitialLoad, updates,
                  allTasksData, predecessorIndex, selectedTaskId, traceMode,
                  floatThreshold, workerOk, cpmWorker, inbox, message,
                  lastRun, posted, overlapped, queueVars >>

(* the first update pushes the data view the report holds *)
FirstUpdate == isInitialLoad /\ HostUpdate(dataView)

(* the host pushes the data view again, unchanged *)
SameUpdate == ~isInitialLoad /\ HostUpdate(dataView)

NoPersistedState ==
  [selectedTaskId |-> "", traceMode |-> "backward", floatThreshold |-> 0]

(* the near-critical thresholds a report may persist: none, or one above   *)
(* the tolerance                                                           *)
Thresholds == {0, MaxThreshold}

----------------------------------------------------------------------------
(* SpecSchedule: the full-project analysis run in-thread on one data view. *)
(* The host does not let the visual create a worker, so the first update   *)
(* runs calculateCPM.                                                      *)

ScheduleDates == [TaskIds -> StartFinish]

FS(succ, pred) == [succ |-> succ, pred |-> pred, type |-> "FS",
                   lag |-> Null, freeFloat |-> Null]

(* relationships of type FS without lag, among them a self-loop and two   *)
(* that name a predecessor that is no task                                 *)
PlainEdge ==
  { FS(p[1], p[2]) : p \in { <<"B", "A">>, <<"C", "B">>, <<"A", "B">>,
                              <<"A", UnknownId>>, <<"B", UnknownId>>,
                              <<"A", "A">> } }

(* A -> B of every type and lag *)
TypedEdge == Edges({"B"}, {"A"}, RelTypes, {Null, 0, 1}, {Null})

(* the relationship rows of a schedule: none, one, or two plain ones *)
ScheduleEdges ==
  {<<>>} \cup { <<e>> : e \in PlainEdge \cup TypedEdge }
         \cup { <<e, f>> : e \in PlainEdge, f \in PlainEdge }

InitSchedule ==
  /\ InitVisual
  /\ workerOk = FALSE
  /\ \E thr \in Thresholds :
        persistedState = [NoPersistedState EXCEPT !.floatThreshold = thr]
  /\ \E d \in ScheduleDates, e \in ScheduleEdges :
        dataView = Rows(TaskOrder, d, e)

NextSchedule == FirstUpdate \/ SameUpdate

SpecSchedule == InitSchedule /\ [][NextSchedule]_vars

----------------------------------------------------------------------------
(* SpecTrace: the task-scoped analyses.  The report persists a selected    *)
(* task and a trace mode, so the first update runs calculateCPMToTask or   *)
(* calculateCPMFromTask on the data view.                                  *)

(* among them A <- B, which closes a cycle with B <- A *)
TraceEdge ==
  { FS(p[1], p[2]) : p \in { <<"B", "A">>, <<"C", "B">>, <<"C", "A">>,
                              <<"A", "B">>, <<"B", UnknownId>> } }

(* none, one or two of them, and the cycle A -> B -> A with C behind it *)
TraceEdges ==
  {<<>>} \cup { <<e>> : e \in TraceEdge }
         \cup { <<e, f>> : e \in TraceEdge, f \in TraceEdge }
         \cup { << FS("C", "A"), FS("B", "A"), FS("A", "B") >> }

InitTrace ==
  /\ InitVisual
  /\ workerOk = FALSE
  /\ persistedState \in [selectedTaskId : TaskIds, traceMode : TraceModes,
                          floatThreshold : Thresholds]
  /\ \E d \in ScheduleDates, e \in TraceEdges :
        dataView = Rows(TaskOrder, d, e)

NextTrace == FirstUpdate

SpecTrace == InitTrace /\ [][NextTrace]_vars

----------------------------------------------------------------------------
(* SpecIndex: the indexer on data views with several rows for the same     *)
(* pair of tasks.  The rows come in the order of the relationship rows,    *)
(* after one row for A, so rows of different tasks may interleave.         *)

IndexDates == [id \in TaskIds |-> IF id = "A" THEN <<0, 1>> ELSE <<1, 2>>]

(* A -> B with several types, lags and free floats, and A -> C *)
IndexEdge ==
  Edges({"B"}, {"A"}, {"FS", "SS"}, {Null, 1}, {Null, 0})
  \cup { FS("C", "A") }

IndexEdges ==
  { <<e, f>> : e \in IndexEdge, f \in IndexEdge }
  \cup { <<e, f, g>> : e \in IndexEdge, f \in IndexEdge, g \in IndexEdge }

EdgeRows(dates, edges) ==
  << Row("A", dates, NoEdge) >>
  \o [i \in 1..Len(edges) |-> Row(edges[i].succ, dates, edges[i])]

InitIndex ==
  /\ InitVisual
  /\ workerOk = FALSE
  /\ persistedState = NoPersistedState
  /\ \E e \in IndexEdges : dataView = EdgeRows(IndexDates, e)

NextIndex == FirstUpdate

SpecIndex == InitIndex /\ [][NextIndex]_vars

----------------------------------------------------------------------------
(* SpecGraph: the cycle gate of calculateCPM on every graph over the three *)
(* tasks, with the tasks and the relationship rows in every order the data *)
(* view may list them.                                                     *)

TaskOrders ==
  { o \in [1..Cardinality(TaskIds) -> TaskIds] :
      \A i \in DOMAIN o, j \in DOMAIN o : o[i] = o[j] => i = j }

(* every relationship between two different tasks *)
AllEdges ==
  << FS("B", "A"), FS("C", "A"), FS("A", "B"),
     FS("C", "B"), FS("A", "C"), FS("B", "C") >>

(* the entries of a sequence at the positions of S, in order *)
Pick(seq, S) ==
  LET F[i \in 0..Len(seq)] ==
        IF i = 0 THEN <<>>
        ELSE IF i \in S THEN Append(F[i - 1], seq[i]) ELSE F[i - 1]
  IN F[Len(seq)]

GraphEdges ==
  { Pick(AllEdges, S) : S \in SUBSET (1..Len(AllEdges)) }
  \cup { Pick(Reverse(AllEdges), S) : S \in SUBSET (1..Len(AllEdges)) }

InitGraph ==
  /\ InitVisual
  /\ workerOk = FALSE
  /\ persistedState = NoPersistedState
  /\ \E o \in TaskOrders, e \in GraphEdges : dataView = Rows(o, IndexDates, e)

NextGraph == FirstUpdate

SpecGraph == InitGraph /\ [][NextGraph]_vars

----------------------------------------------------------------------------
(* Spec: the visual and its worker.  The host pushes data views, the user  *)
(* selects tasks and switches the trace mode, the worker answers the       *)
(* snapshots posted to it, and the answers are delivered in order.         *)

WorkerDates == [id \in TaskIds |-> IF id = "A" THEN <<0, 1>> ELSE <<1, 2>>]

WorkerEdge ==
  Edges({"B"}, {"A"}, {"FS"}, {Null}, {0, 2})
  \cup Edges({"A"}, {"B"}, {"FS"}, {Null}, {0})

WorkerEdges ==
  {<<>>} \cup { <<e>> : e \in WorkerEdge }
         \cup { <<e, f>> : e \in WorkerEdge, f \in WorkerEdge }

WorkerSnapshots == { Rows(TaskOrder, WorkerDates, e) : e \in WorkerEdges }

Init ==
  /\ InitVisual
  /\ workerOk \in BOOLEAN
  /\ persistedState = NoPersistedState
  /\ dataView = <<>>

Next ==
  \/ \E rows \in WorkerSnapshots : HostUpdate(rows)
  \/ \E id \in TaskIds : SelectTask(id)
  \/ \E mode \in TraceModes : SetTraceMode(mode)
  \/ WorkerOnMessage
  \/ DeliverMessage

Spec == Init /\ [][Next]_vars

----------------------------------------------------------------------------
(* Properties of the full-project analysis (SpecSchedule)                  *)

(* calculateCPM has analysed the data view: no cycle was reported *)
FullRunDone == ~isInitialLoad /\ lastRun = "inThread" /\ message = ""

(* a relationship a -> b of type FS without lag *)
HasFS0(a, b) ==
  \E i \in 1..Len(relationships) :
     /\ relationships[i].predecessorId = a
     /\ relationships[i].successorId = b
     /\ relationships[i].type = "FS"
     /\ Coalesce0(relationships[i].lag) = 0

(* every relationship into b comes from a *)
OnlyPredecessor(a, b) ==
  \A i \in 1..Len(relationships) :
     relationships[i].successorId = b => relationships[i].predecessorId = a

(* every relationship out of b goes to c *)
OnlySuccessor(b, c) ==
  \A i \in 1..Len(relationships) :
     relationships[i].predecessorId = b => relationships[i].successorId = c

NoSuccessors(b) ==
  \A i \in 1..Len(relationships) : relationships[i].predecessorId # b

(* b is the successor of one relationship, a -> b FS without lag, has no   *)
(* successors and starts exactly when a finishes                           *)
AlignedSuccessor(a, b) ==
  /\ FullRunDone
  /\ a # b
  /\ HasFS0(a, b)
  /\ OnlyPredecessor(a, b)
  /\ NoSuccessors(b)
  /\ taskIdToTask[b].startDate = taskIdToTask[a].finishDate

EarlyStart(a, b, l) ==
  /\ FullRunDone
  /\ a # b
  /\ \E i \in 1..Len(relationships) :
        /\ relationships[i].predecessorId = a
        /\ relationships[i].successorId = b
        /\ relationships[i].type = "FS"
        /\ Coalesce0(relationships[i].lag) = l
  /\ taskIdToTask[b].startDate + FloatTol < taskIdToTask[a].finishDate + l

(* C2: after a full-project analysis, a task B that starts more than the   *)
(* tolerance before A.finish + L, for an FS relationship A -> B with lag   *)
(* L, violates its constraints and has a negative totalFloat, which is     *)
(* B.start - (A.finish + L) when A -> B is the only relationship of B.     *)
C2_ViolationOnEarlyStart ==
  \A a \in TaskIds, b \in TaskIds, l \in 0..1 :
     EarlyStart(a, b, l) =>
       /\ taskIdToTask[b].violatesConstraints
       /\ taskIdToTask[b].totalFloat < 0
       /\ (OnlyPredecessor(a, b) /\ NoSuccessors(b)) =>
             taskIdToTask[b].totalFloat =
               taskIdToTask[b].startDate - (taskIdToTask[a].finishDate + l)

(* an FS chain a -> b -> c without lag, the only relationships of b, where *)
(* b starts exactly when a finishes and c starts after b has finished      *)
Chain(a, b, c) ==
  /\ FullRunDone
  /\ Cardinality({a, b, c}) = 3
  /\ HasFS0(a, b)
  /\ HasFS0(b, c)
  /\ OnlyPredecessor(a, b)
  /\ OnlySuccessor(b, c)
  /\ taskIdToTask[b].startDate = taskIdToTask[a].finishDate
  /\ taskIdToTask[c].startDate > taskIdToTask[b].finishDate

WithoutDangling(rows) ==
  LET ids == TaskDataKeys(rows)
  IN [i \in 1..Len(rows) |->
        IF rows[i].predecessorId \in Range(ids) \cup {""}
        THEN rows[i]
        ELSE [rows[i] EXCEPT !.predecessorId = ""]]

(* calculateCPM on the freshly indexed rows *)
FullProjectOf(idx) ==
  CalculateCPM(idx.allTasksData, idx.taskIdToTask, idx.relationships,
               floatThreshold)

FullProject(rows) == FullProjectOf(TransformDataOptimized(rows))

SameVerdict(tm, um) ==
  \A id \in DOMAIN tm :
     /\ tm[id].totalFloat = um[id].totalFloat
     /\ tm[id].violatesConstraints = um[id].violatesConstraints
     /\ tm[id].isCritical = um[id].isCritical

(* C8: a full-project analysis gives every task the totalFloat,            *)
(* violatesConstraints and isCritical it gives when the relationships      *)
(* whose predecessor names no task are absent from the data view.          *)
C8_DanglingContained ==
  (~isInitialLoad /\ lastRun = "inThread") =>
     \A clean \in {FullProject(WithoutDangling(dataView))} :
        SameVerdict(taskIdToTask, clean.tasks)

(* C9: after indexing, no relationship joins a task to itself, both ends   *)
(* of every relationship are tasks of the lookup, and so is every id in a  *)
(* task's predecessorIds.                                                  *)
C9_IndexerFiltering ==
  ~isInitialLoad =>
     /\ \A i \in 1..Len(relationships) :
           /\ relationships[i].predecessorId # relationships[i].successorId
           /\ relationships[i].predecessorId \in DOMAIN taskIdToTask
           /\ relationships[i].successorId \in DOMAIN taskIdToTask
     /\ \A id \in DOMAIN taskIdToTask :
           Range(taskIdToTask[id].predecessorIds) \subseteq DOMAIN taskIdToTask

(* C10: after a full-project analysis, a task C that starts strictly later *)
(* than B finishes, for an FS relationship B -> C without lag, has a       *)
(* strictly positive totalFloat.                                           *)
C10_GapGivesSlack ==
  \A b \in TaskIds, c \in TaskIds :
     (/\ FullRunDone
      /\ b # c
      /\ HasFS0(b, c)
      /\ OnlyPredecessor(b, c)
      /\ NoSuccessors(c)
      /\ taskIdToTask[c].startDate > taskIdToTask[b].finishDate)
     => taskIdToTask[c].totalFloat > 0

----------------------------------------------------------------------------
(* Properties of the task-scoped analyses (SpecTrace)                      *)

(* a task-scoped run has analysed the data view *)
ScopedRunDone ==
  ~isInitialLoad /\ lastRun \in {"toTask", "fromTask"} /\ message = ""

(* the tasks of the closure other than the selected one *)
NonSeed(closure) == (closure \cap DOMAIN taskIdToTask) \ {selectedTaskId}

SameClassification(ids, tm, um) ==
  \A id \in ids :
     /\ tm[id].totalFloat = um[id].totalFloat
     /\ tm[id].isCriticalByFloat = um[id].isCriticalByFloat
     /\ tm[id].isNearCritical = um[id].isNearCritical
     /\ um[id].totalFloat < 0 - FloatTol => ~tm[id].isCriticalByFloat

(* C6: after a task-scoped run, every task of the closure other than the   *)
(* selected one has the totalFloat, isCriticalByFloat and isNearCritical   *)
(* of the full-project classification; a task whose totalFloat is below    *)
(* the negated tolerance is not critical by float.                         *)
C6_ScopedReusesFullRules ==
  ScopedRunDone =>
     \A idx \in {TransformDataOptimized(dataView)} :
        \A full \in {FullProjectOf(idx)} :
           SameClassification(
             NonSeed(TraceClosure(traceMode, selectedTaskId, idx.taskIdToTask,
                                  idx.predecessorIndex)),
             taskIdToTask, full.tasks)

----------------------------------------------------------------------------
(* Properties of the off-thread runs (Spec)                                *)

(* the last update asked for a full-project analysis *)
FullProjectRequested == ~isInitialLoad /\ lastRun \in {"inThread", "offThread"}

Untouched(tm, fresh) ==
  \A id \in DOMAIN tm :
     /\ tm[id].totalFloat = fresh[id].totalFloat
     /\ tm[id].isCritical = fresh[id].isCritical
     /\ tm[id].isCriticalByFloat = fresh[id].isCriticalByFloat
     /\ tm[id].isCriticalByRel = fresh[id].isCriticalByRel
     /\ tm[id].isNearCritical = fresh[id].isNearCritical

(* C4: when the task graph of the data view contains a cycle, a            *)
(* full-project analysis request, in-thread or off-thread, reports the     *)
(* cycle, and totalFloat and the criticality flags of every task stay at   *)
(* their freshly indexed values.                                           *)
C4_CycleGate ==
  FullProjectRequested =>
     \A idx \in {TransformDataOptimized(dataView)} :
        DetectAndReportCycles(idx.allTasksData, idx.taskIdToTask).hasCycles =>
           /\ message = "cycles"
           /\ Untouched(taskIdToTask, idx.taskIdToTask)

(* the records hold the answer of the worker to the one snapshot posted *)
OneRunAnswered ==
  /\ ~isInitialLoad
  /\ lastRun = "offThread"
  /\ Len(posted) = 1
  /\ delivered = 1

SameResults(tm, rels, analysed) ==
  /\ \A id \in DOMAIN tm :
        /\ tm[id].totalFloat = analysed.tasks[id].totalFloat
        /\ tm[id].violatesConstraints = analysed.tasks[id].violatesConstraints
        /\ tm[id].isCritical = analysed.tasks[id].isCritical
        /\ tm[id].isCriticalByFloat = analysed.tasks[id].isCriticalByFloat
        /\ tm[id].isCriticalByRel = analysed.tasks[id].isCriticalByRel
        /\ tm[id].isNearCritical = analysed.tasks[id].isNearCritical
  /\ \A i \in 1..Len(rels) :
        rels[i].isCritical = analysed.relationships[i].isCritical

(* C5: for an acyclic snapshot, the records the worker's answer leaves     *)
(* have the totalFloat, violation and criticality flags of the tasks and   *)
(* the isCritical of the relationships that runScheduleAnalysis computes   *)
(* on that snapshot.                                                       *)
C5_SameAnalysisEverywhere ==
  OneRunAnswered =>
     \A idx \in {TransformDataOptimized(dataView)} :
        ~DetectAndReportCycles(idx.allTasksData, idx.taskIdToTask).hasCycles =>
           \A analysed \in {RunScheduleAnalysis(idx.allTasksData,
                                                idx.taskIdToTask,
                                                idx.relationships, FloatTol,
                                                floatThreshold)} :
              SameResults(taskIdToTask, relationships, analysed)

(* two snapshots were posted, the second while the answer to the first was *)
(* pending, and both answers have been delivered                           *)
BothRunsAnswered ==
  /\ ~isInitialLoad
  /\ lastRun = "offThread"
  /\ overlapped
  /\ Len(posted) = 2
  /\ delivered = 2

(* C7: when a second off-thread run was posted while the first was         *)
(* pending and both answers have been delivered, the task and relationship *)
(* records hold the results of the second run.                             *)
C7_SupersedingRuns ==
  BothRunsAnswered =>
     \A idx \in {TransformDataOptimized(dataView)} :
        \A answer \in {OnMessage(posted[2])} :
           /\ taskIdToTask = ApplyTaskResults(idx.taskIdToTask, answer.tasks)
           /\ relationships = ApplyRelationshipResults(idx.relationships,
                                                       answer.relationships)

----------------------------------------------------------------------------
(* Properties of every kind of run (Spec)                                  *)

(* the records are as a completed run left them: an in-thread run that     *)
(* reported no cycle, before any answer of the worker was applied, or the  *)
(* one off-thread run, answered                                            *)
RunDone ==
  \/ /\ ~isInitialLoad
     /\ lastRun \in {"inThread", "toTask", "fromTask"}
     /\ message = ""
     /\ delivered = 0
  \/ OneRunAnswered

(* the dates of the first row of a task in the data view *)
ActualStart(id) == FirstRowOf(dataView, id).startDate

ActualFinish(id) == FirstRowOf(dataView, id).finishDate

EarliestStart ==
  CHOOSE m \in { ActualStart(id) : id \in DOMAIN taskIdToTask } :
     \A id \in DOMAIN taskIdToTask : m <= ActualStart(id)

DatesKept(id) ==
  /\ taskIdToTask[id].startDate = ActualStart(id)
  /\ taskIdToTask[id].finishDate = ActualFinish(id)
  /\ taskIdToTask[id].earlyStart = ActualStart(id) - EarliestStart
  /\ taskIdToTask[id].earlyFinish = ActualFinish(id) - EarliestStart

(* C11: after a full-project or task-scoped run, every task has the start  *)
(* and finish dates of the data view, and its earlyStart and earlyFinish   *)
(* are these dates as offsets from the earliest start.                     *)
C11_DatesNeverAdjusted ==
  RunDone => \A id \in DOMAIN taskIdToTask : DatesKept(id)

(* the in-thread half of C11: runs that did not go through the worker *)
InThreadDatesKept ==
  (RunDone /\ lastRun # "offThread") =>
     \A id \in DOMAIN taskIdToTask : DatesKept(id)

----------------------------------------------------------------------------
(* Properties of the closure of a task-scoped run (SpecTrace)              *)

(* the closure the last task-scoped run restricted criticality to *)
ChosenClosure ==
  TraceClosure(traceMode, selectedTaskId, taskIdToTask, predecessorIndex)

Excluded(t) ==
  /\ ~t.isCritical
  /\ ~t.isCriticalByFloat
  /\ ~t.isCriticalByRel
  /\ ~t.isNearCritical
  /\ t.totalFloat = Infinity

(* C12: after a task-scoped run, every task outside the closure has all    *)
(* four criticality flags false and totalFloat = Infinity, and every       *)
(* relationship with an end outside the closure is not critical.           *)
C12_SubgraphRestriction ==
  ScopedRunDone =>
     \A closure \in {ChosenClosure} :
        /\ \A id \in DOMAIN taskIdToTask \ closure : Excluded(taskIdToTask[id])
        /\ \A i \in 1..Len(relationships) :
              (\/ relationships[i].predecessorId \notin closure
               \/ relationships[i].successorId \notin closure)
              => ~relationships[i].isCritical

(* a task and a relationship that the full-project analysis marks critical *)
(* are outside the closure of the run                                      *)
C12_Witness ==
  /\ ScopedRunDone
  /\ \A closure \in {ChosenClosure} :
        \A full \in {FullProject(dataView)} :
           /\ \E id \in DOMAIN taskIdToTask \ closure :
                 /\ full.tasks[id].isCritical
                 /\ Excluded(taskIdToTask[id])
           /\ \E i \in 1..Len(relationships) :
                 /\ relationships[i].successorId \notin closure
                 /\ relationships[i].predecessorId \in closure
                 /\ full.relationships[i].isCritical
                 /\ ~relationships[i].isCritical

(* calculateCPMToTask or calculateCPMFromTask ran on the data view,        *)
(* whether or not calculateCPM reported a cycle                            *)
ScopedRan == ~isInitialLoad /\ lastRun \in {"toTask", "fromTask"}

(* C13: after a task-scoped run whose seed names a task, the seed is       *)
(* critical and not near-critical, whatever its totalFloat.                *)
C13_SeedAlwaysHighlighted ==
  (ScopedRan /\ selectedTaskId \in DOMAIN taskIdToTask) =>
     /\ taskIdToTask[selectedTaskId].isCritical
     /\ ~taskIdToTask[selectedTaskId].isNearCritical

(* the seed of the run has no finite float and no critical relationship *)
C13_Witness ==
  /\ ScopedRan
  /\ selectedTaskId \in DOMAIN taskIdToTask
  /\ taskIdToTask[selectedTaskId].totalFloat = Infinity
  /\ ~taskIdToTask[selectedTaskId].isCriticalByFloat
  /\ ~taskIdToTask[selectedTaskId].isCriticalByRel
  /\ taskIdToTask[selectedTaskId].isCritical

(* the tasks one relationship away from a task: its successors when        *)
(* forward, its predecessors otherwise                                     *)
Neighbours(id, forward) ==
  { IF forward THEN relationships[i].successorId
    ELSE relationships[i].predecessorId :
      i \in { j \in 1..Len(relationships) :
                IF forward THEN relationships[j].predecessorId = id
                ELSE relationships[j].successorId = id } }
  \cap DOMAIN taskIdToTask

(* the tasks reachable from the tasks of S *)
RECURSIVE Reachable(_, _)
Reachable(S, forward) ==
  LET N == S \cup UNION { Neighbours(id, forward) : id \in S }
  IN IF N = S THEN S ELSE Reachable(N, forward)

(* C14: the closure of a task-scoped run is exactly the seed plus every    *)
(* task reachable from it along predecessor edges (backward trace) or      *)
(* along successor edges (forward trace).                                  *)
C14_ClosureCorrectness ==
  (ScopedRan /\ selectedTaskId \in DOMAIN taskIdToTask) =>
     ChosenClosure = Reachable({selectedTaskId}, traceMode = "forward")

(* C14 on the data views where every predecessor id names a task *)
ClosureCorrectWithoutDangling ==
  (/\ ScopedRan
   /\ selectedTaskId \in DOMAIN taskIdToTask
   /\ \A i \in 1..Len(relationships) :
         relationships[i].predecessorId \in DOMAIN taskIdToTask) =>
     ChosenClosure = Reachable({selectedTaskId}, traceMode = "forward")

----------------------------------------------------------------------------
(* Algebraic properties of the full-project analysis (SpecSchedule)        *)

(* C15: running the full-project analysis again on the records the         *)
(* previous run left, with the same tolerance and threshold, gives the     *)
(* same task and relationship records.                                     *)
C15_Idempotence ==
  FullRunDone =>
     \A again \in {RunScheduleAnalysis(allTasksData, taskIdToTask,
                                       relationships, FloatTol,
                                       floatThreshold)} :
        /\ again.tasks = taskIdToTask
        /\ again.relationships = relationships

(* the data view was analysed twice and the schedule does not start at the *)
(* origin of the dates; a task violates a relationship and another is      *)
(* critical                                                                *)
C15_Witness ==
  /\ FullRunDone
  /\ updates = 2
  /\ \A id \in DOMAIN taskIdToTask : taskIdToTask[id].startDate > 0
  /\ \E id \in DOMAIN taskIdToTask : taskIdToTask[id].violatesConstraints
  /\ \E id \in DOMAIN taskIdToTask : taskIdToTask[id].isCritical

(* the second analysis of an unchanged data view leaves the records of the *)
(* first                                                                   *)
SameUpdateSameRecords ==
  [][(~isInitialLoad /\ dataView' = dataView /\ lastRun = "inThread")
       => (taskIdToTask' = taskIdToTask /\ relationships' = relationships)]_vars

(* the near-critical tasks the full-project analysis of the data view      *)
(* finds under a threshold                                                 *)
NearCriticalUnder(thr) ==
  LET idx == TransformDataOptimized(dataView)
      r == CalculateCPM(idx.allTasksData, idx.taskIdToTask, idx.relationships,
                        thr)
  IN { id \in DOMAIN r.tasks : r.tasks[id].isNearCritical }

(* raising the threshold removes no task from the near-critical set of the *)
(* full-project analysis                                                   *)
NearCriticalMonotone ==
  FullRunDone =>
     \A thr \in floatThreshold..(MaxThreshold + 1) :
        { id \in DOMAIN taskIdToTask : taskIdToTask[id].isNearCritical }
          \subseteq NearCriticalUnder(thr)

(* no run of the visual marks a task near-critical *)
NoNearCritical ==
  \A id \in DOMAIN taskIdToTask : ~taskIdToTask[id].isNearCritical

----------------------------------------------------------------------------
(* Properties of the indexer (SpecIndex)                                   *)

(* the rows of the data view that name the pair of a relationship *)
RowsOfPair(rel) ==
  { k \in 1..Len(dataView) :
      /\ dataView[k].taskId = rel.successorId
      /\ dataView[k].predecessorId = rel.predecessorId }

FirstRowOfPair(rel) ==
  dataView[CHOOSE k \in RowsOfPair(rel) : \A m \in RowsOfPair(rel) : k <= m]

(* C17: after indexing, no two relationships join the same predecessor to  *)
(* the same successor, and each relationship has the type, lag and free    *)
(* float of the first row of the data view for its pair.                   *)
C17_RelationshipDeduplication ==
  ~isInitialLoad =>
     /\ \A i \in 1..Len(relationships), j \in 1..Len(relationships) :
           (/\ relationships[i].predecessorId = relationships[j].predecessorId
            /\ relationships[i].successorId = relationships[j].successorId)
           => i = j
     /\ \A i \in 1..Len(relationships) :
           /\ RowsOfPair(relationships[i]) # {}
           /\ \A first \in {FirstRowOfPair(relationships[i])} :
                 /\ relationships[i].type = first.relationshipType
                 /\ relationships[i].lag = first.relationshipLag
                 /\ relationships[i].freeFloat = first.relationshipFreeFloat

(* a pair has two rows, the row of another pair between them, and the     *)
(* later row differs from the first in type, lag and free float            *)
C17_Witness ==
  /\ ~isInitialLoad
  /\ Len(relationships) = 2
  /\ \E i \in 1..Len(relationships) :
        /\ Cardinality(RowsOfPair(relationships[i])) = 2
        /\ \E k \in RowsOfPair(relationships[i]) :
              /\ dataView[k].relationshipType # relationships[i].type
              /\ dataView[k].relationshipLag # relationships[i].lag
              /\ dataView[k].relationshipFreeFloat # relationships[i].freeFloat
              /\ \E m \in 1..(k - 1) : dataView[m].taskId = "C"
              /\ \E m \in 1..(k - 1) : m \in RowsOfPair(relationships[i])

----------------------------------------------------------------------------
(* Results of the two passes of the full-project analysis (SpecSchedule)   *)

(* the actual dates of a task as offsets from the earliest start *)
StartOf(id) == taskIdToTask[id].startDate - EarliestStart

FinishOf(id) == taskIdToTask[id].finishDate - EarliestStart

DurationOfTask(id) == FinishOf(id) - StartOf(id)

(* the relationships between two tasks of the lookup *)
TaskRelationships ==
  { i \in 1..Len(relationships) :
      /\ relationships[i].predecessorId \in DOMAIN taskIdToTask
      /\ relationships[i].successorId \in DOMAIN taskIdToTask }

(* the earliest start relationship i asks of its successor *)
ImpliedStart(i) ==
  LET p == relationships[i].predecessorId
      s == relationships[i].successorId
      lag == Coalesce0(relationships[i].lag)
  IN CASE relationships[i].type = "FS" -> FinishOf(p) + lag
       [] relationships[i].type = "SS" -> StartOf(p) + lag
       [] relationships[i].type = "FF" -> FinishOf(p) - DurationOfTask(s) + lag
       [] relationships[i].type = "SF" -> StartOf(p) - DurationOfTask(s) + lag

SetMax(S) == CHOOSE m \in S : \A x \in S : x <= m

SetMin(S) == CHOOSE m \in S : \A x \in S : m <= x

(* C18: after the forward pass on an acyclic graph, the earliestReqStart   *)
(* of every task is the maximum of its own actual start and the starts its *)
(* incoming relationships imply, none left out.                            *)
C18_ForwardPassResult ==
  FullRunDone =>
     \A id \in DOMAIN taskIdToTask :
        taskIdToTask[id].earliestReqStart =
          SetMax({StartOf(id)} \cup
                 { ImpliedStart(i) :
                     i \in { j \in TaskRelationships :
                               relationships[j].successorId = id } })

(* every predecessor id of the data view names a task *)
NoDangling ==
  \A i \in 1..Len(relationships) :
     relationships[i].predecessorId \in DOMAIN taskIdToTask

(* C18 on the data views without dangling predecessor *)
ForwardPassResultWithoutDangling == NoDangling => C18_ForwardPassResult

(* the latest finish relationship i asks of its predecessor *)
ImpliedFinish(i) ==
  LET p == relationships[i].predecessorId
      s == relationships[i].successorId
      lag == Coalesce0(relationships[i].lag)
  IN CASE relationships[i].type = "FS" -> StartOf(s) - lag
       [] relationships[i].type = "SS" -> StartOf(s) - lag + DurationOfTask(p)
       [] relationships[i].type = "FF" -> FinishOf(s) - lag
       [] relationships[i].type = "SF" ->
            FinishOf(s) - lag - DurationOfTask(s) + DurationOfTask(p)

(* C19: after the backward pass on an acyclic graph, the latestReqFinish   *)
(* of every task is the minimum of its own actual finish and the finishes  *)
(* its outgoing relationships imply; it is never later than the actual     *)
(* finish.                                                                 *)
C19_BackwardPassResult ==
  FullRunDone =>
     \A id \in DOMAIN taskIdToTask :
        /\ taskIdToTask[id].latestReqFinish =
             SetMin({FinishOf(id)} \cup
                    { ImpliedFinish(i) :
                        i \in { j \in TaskRelationships :
                                  relationships[j].predecessorId = id } })
        /\ taskIdToTask[id].latestReqFinish <= FinishOf(id)

(* C19 on the data views without dangling predecessor *)
BackwardPassResultWithoutDangling == NoDangling => C19_BackwardPassResult

----------------------------------------------------------------------------
(* Properties of the cycle detector (SpecGraph)                            *)

(* the tasks that lie on a directed cycle of the successor graph *)
OnCycle ==
  { id \in DOMAIN taskIdToTask :
      \E n \in Neighbours(id, TRUE) : id \in Reachable({n}, TRUE) }

(* C20: detectAndReportCycles reports a cycle exactly when the successor   *)
(* graph of the indexed tasks has a directed cycle, whatever the graph and *)
(* the order of the task list; calculateCPM then displays the cycle error. *)
C20_CycleDetector ==
  (~isInitialLoad /\ lastRun = "inThread") =>
     /\ DetectAndReportCycles(allTasksData, taskIdToTask).hasCycles
          <=> OnCycle # {}
     /\ message = "cycles" <=> OnCycle # {}

(* a cycle that the search from the first task of the list does not reach  *)
(* is reported                                                             *)
C20_Witness ==
  /\ ~isInitialLoad
  /\ lastRun = "inThread"
  /\ message = "cycles"
  /\ Cardinality(OnCycle) = 2
  /\ Reachable({Head(allTasksData)}, TRUE) \cap OnCycle = {}
  /\ Neighbours(Head(allTasksData), FALSE) # {}

(* a graph without cycle where a task is the successor of two others is    *)
(* not reported                                                            *)
AcyclicDiamondPasses ==
  /\ ~isInitialLoad
  /\ lastRun = "inThread"
  /\ message = ""
  /\ Len(relationships) = 3
  /\ \E id \in DOMAIN taskIdToTask : Cardinality(Neighbours(id, FALSE)) = 2

(* C21: every task that detectAndReportCycles puts in cyclicTasks lies on  *)
(* a directed cycle of the successor graph; a task that only leads into a  *)
(* cycle is not reported.                                                  *)
C21_CyclicTaskSet ==
  (~isInitialLoad /\ lastRun = "inThread") =>
     DetectAndReportCycles(allTasksData, taskIdToTask).cyclicTasks
       \subseteq OnCycle

(* every reported task is a task from which a cycle can be reached *)
CyclicTasksReachCycle ==
  (~isInitialLoad /\ lastRun = "inThread") =>
     \A id \in DetectAndReportCycles(allTasksData, taskIdToTask).cyclicTasks :
        Reachable({id}, TRUE) \cap OnCycle # {}

----------------------------------------------------------------------------
(* Properties of the Kahn ordering (SpecSchedule)                          *)

(* the topological order runScheduleAnalysis builds on the indexed tasks *)
Topo ==
  KahnForward(KahnStart(allTasksData,
                        ResetTasks(allTasksData, taskIdToTask)),
              relationships).topo

(* the positions of a task in a sequence of ids *)
Positions(seq, id) == { i \in 1..Len(seq) : seq[i] = id }

(* C22: the Kahn ordering of runScheduleAnalysis is shorter than the task  *)
(* list only if the relationship graph has a cycle; without cycle every    *)
(* task is dequeued exactly once, after all of its predecessors.           *)
C22_KahnSafetyNet ==
  (~isInitialLoad /\ lastRun = "inThread") =>
     \A topo \in {Topo} :
        /\ Len(topo) < Len(allTasksData) => OnCycle # {}
        /\ OnCycle = {} =>
             /\ \A id \in DOMAIN taskIdToTask :
                   Cardinality(Positions(topo, id)) = 1
             /\ \A i \in TaskRelationships :
                   \A p \in Positions(topo, relationships[i].predecessorId),
                      s \in Positions(topo, relationships[i].successorId) :
                        p < s

(* C22 on the data views without dangling predecessor *)
KahnSafetyNetWithoutDangling == NoDangling => C22_KahnSafetyNet

----------------------------------------------------------------------------
(* Properties of the classification (SpecSchedule)                         *)

(* the number of flags among violatesConstraints, isCriticalByFloat and    *)
(* isNearCritical that a task record has set                               *)
FlagsSet(t) ==
  Cardinality({ f \in {"violatesConstraints", "isCriticalByFloat",
                       "isNearCritical"} : t[f] })

(* C23: after full-project analysis the totalFloat of every task is the    *)
(* smaller of actual start - earliestReqStart and latestReqFinish - actual *)
(* finish; it violates iff that is below -tolerance, is critical by float  *)
(* iff it is within the tolerance and not violating, near-critical iff it  *)
(* is above the tolerance and at most the threshold and neither of the     *)
(* two; at most one of the three flags is set.                             *)
C23_FloatClassification ==
  FullRunDone =>
     \A id \in DOMAIN taskIdToTask :
        \A t \in {taskIdToTask[id]} :
           \A tf \in {Min2(StartOf(id) - t.earliestReqStart,
                           t.latestReqFinish - FinishOf(id))} :
              /\ t.totalFloat = tf
              /\ t.violatesConstraints <=> tf < 0 - FloatTol
              /\ t.isCriticalByFloat <=>
                   (AbsDiff(tf, 0) <= FloatTol /\ ~t.violatesConstraints)
              /\ t.isNearCritical <=>
                   /\ FloatTol < tf
                   /\ tf <= floatThreshold
                   /\ ~t.violatesConstraints
                   /\ ~t.isCriticalByFloat
              /\ FlagsSet(t) <= 1

(* a run that classified one task as violating on its finish slack alone,  *)
(* and another as critical by float with a float that is not 0             *)
C23_Witness ==
  /\ FullRunDone
  /\ \E id \in DOMAIN taskIdToTask :
        /\ taskIdToTask[id].violatesConstraints
        /\ taskIdToTask[id].earliestReqStart = StartOf(id)
  /\ \E id \in DOMAIN taskIdToTask :
        /\ taskIdToTask[id].isCriticalByFloat
        /\ taskIdToTask[id].totalFloat = 0 - FloatTol

----------------------------------------------------------------------------
(* Relationships with and without a supplied free float                    *)

(* A -> B of every type, without lag or with lag 1, without free float or  *)
(* with one below, at and above the tolerance                              *)
FreeFloatEdge == Edges({"B"}, {"A"}, RelTypes, {Null, 1}, {Null, 0, 1, 2})

(* B -> C without free float, and a relationship of C that names a         *)
(* predecessor that is no task, with and without free float                *)
OtherEdge ==
  {FS("C", "B")} \cup Edges({"C"}, {UnknownId}, {"FS"}, {Null}, {Null, 0})

RelationshipEdges ==
  { <<e>> : e \in FreeFloatEdge \cup OtherEdge }
  \cup { <<e, f>> : e \in FreeFloatEdge, f \in OtherEdge }

InitRelationship ==
  /\ InitVisual
  /\ workerOk = FALSE
  /\ persistedState = NoPersistedState
  /\ \E d \in ScheduleDates, e \in RelationshipEdges :
        dataView = Rows(TaskOrder, d, e)

NextRelationship == FirstUpdate

SpecRelationship == InitRelationship /\ [][NextRelationship]_vars

(* relationship i is driving on the dates of the data view *)
Driving(i) ==
  LET p == relationships[i].predecessorId
      s == relationships[i].successorId
      lag == Coalesce0(relationships[i].lag)
  IN CASE relationships[i].type = "FS" ->
            AbsDiff(FinishOf(p) + lag, StartOf(s)) <= FloatTol
       [] relationships[i].type = "SS" ->
            AbsDiff(StartOf(p) + lag, StartOf(s)) <= FloatTol
       [] relationships[i].type = "FF" ->
            AbsDiff(FinishOf(p) + lag, FinishOf(s)) <= FloatTol
       [] relationships[i].type = "SF" ->
            AbsDiff(StartOf(p) + lag, FinishOf(s)) <= FloatTol

(* C24: after full-project analysis a relationship with a supplied         *)
(* freeFloat is critical iff the freeFloat is at most the tolerance,       *)
(* whatever the dates; one without is critical iff it is driving and both  *)
(* of its tasks are critical by float.                                     *)
C24_RelationshipCriticality ==
  FullRunDone =>
     \A i \in 1..Len(relationships) :
        IF relationships[i].freeFloat # Null
        THEN relationships[i].isCritical
               <=> relationships[i].freeFloat <= FloatTol
        ELSE relationships[i].isCritical <=>
               /\ i \in TaskRelationships
               /\ Driving(i)
               /\ taskIdToTask[relationships[i].predecessorId].isCriticalByFloat
               /\ taskIdToTask[relationships[i].successorId].isCriticalByFloat

(* C24 on the data views without dangling predecessor *)
RelationshipCriticalityWithoutDangling ==
  NoDangling => C24_RelationshipCriticality

(* relationships that the two rules decide differently from the dates:     *)
(* one critical by its free float though not driving, one not critical by  *)
(* its free float though driving between tasks critical by float           *)
FreeFloatDecides ==
  /\ FullRunDone
  /\ \E i \in TaskRelationships :
        /\ relationships[i].freeFloat # Null
        /\ relationships[i].isCritical #
             (/\ Driving(i)
              /\ taskIdToTask[relationships[i].predecessorId].isCriticalByFloat
              /\ taskIdToTask[relationships[i].successorId].isCriticalByFloat)

(* C25: after full-project analysis a task is critical by relationship iff *)
(* a critical relationship has it as predecessor or successor, and it is   *)
(* critical iff it is critical by float and not violating, or critical by  *)
(* relationship.                                                           *)
C25_TaskCriticality ==
  FullRunDone =>
     \A id \in DOMAIN taskIdToTask :
        \A t \in {taskIdToTask[id]} :
           /\ t.isCriticalByRel <=>
                \E i \in 1..Len(relationships) :
                   /\ relationships[i].isCritical
                   /\ id \in {relationships[i].predecessorId,
                              relationships[i].successorId}
           /\ t.isCritical <=>
                ((t.isCriticalByFloat /\ ~t.violatesConstraints)
                   \/ t.isCriticalByRel)

(* a run where a violating task is critical through the relationship it   *)
(* is the predecessor of, and a task critical by float has no critical     *)
(* relationship                                                            *)
C25_Witness ==
  /\ FullRunDone
  /\ \E i \in 1..Len(relationships) :
        /\ relationships[i].isCritical
        /\ taskIdToTask[relationships[i].predecessorId].violatesConstraints
        /\ taskIdToTask[relationships[i].predecessorId].isCritical
  /\ \E id \in DOMAIN taskIdToTask :
        /\ taskIdToTask[id].isCritical
        /\ ~taskIdToTask[id].isCriticalByRel

----------------------------------------------------------------------------
(* Properties of the closures as searches (SpecTrace, SpecGraph)           *)

(* a finished search put no id on the queue twice and emptied the queue *)
EachQueuedOnce(st) ==
  /\ st.queue = <<>>
  /\ \A i \in DOMAIN st.pushed, j \in DOMAIN st.pushed :
        st.pushed[i] = st.pushed[j] => i = j
  /\ Range(st.pushed) = st.seen

(* the search of the closure of a seed, along predecessors or successors *)
ClosureSearch(mode, id) ==
  IF mode = "forward"
  THEN SuccessorBFS(BFSStart(id), predecessorIndex)
  ELSE PredecessorBFS(BFSStart(id), taskIdToTask)

(* C26: the ancestor and the descendant search of a task-scoped run end,   *)
(* cycles reachable from the seed included, and put each task id on the    *)
(* work queue at most once.                                                *)
C26_ClosureTermination ==
  ScopedRan => EachQueuedOnce(ClosureSearch(traceMode, selectedTaskId))

(* a scoped run whose seed is not on a cycle but reaches one: the search   *)
(* went round the cycle and ended with three ids queued                    *)
C26_Witness ==
  /\ ScopedRan
  /\ selectedTaskId \notin OnCycle
  /\ Cardinality(ChosenClosure \cap OnCycle) = 2
  /\ Len(ClosureSearch(traceMode, selectedTaskId).pushed) = 3

(* the same from every task of every graph over three tasks, in both       *)
(* directions                                                              *)
ClosuresEndOnEveryGraph ==
  ~isInitialLoad =>
     \A id \in DOMAIN taskIdToTask, mode \in {"forward", "backward"} :
        EachQueuedOnce(ClosureSearch(mode, id))

----------------------------------------------------------------------------
(* A PriorityQueue under enqueue and dequeue calls                         *)

MaxCalls == 7

MaxPriority == 2

Priorities == 0..MaxPriority

(* enqueue(item, priority); the items are numbered in the order of the     *)
(* calls, so that each is told apart from the others                       *)
Enqueue(priority) ==
  /\ calls < MaxCalls
  /\ calls' = calls + 1
  /\ heap' = EnqueueHeap(heap, calls + 1, priority, compare)
  /\ enqueued' = Append(enqueued, calls + 1)
  /\ UNCHANGED << compare, returned, lastDequeue, visualVars >>

(* dequeue() *)
Dequeue ==
  /\ calls < MaxCalls
  /\ calls' = calls + 1
  /\ heap' = DequeueHeap(heap, compare)
  /\ returned' = IF Size(heap) = 0 THEN returned
                 ELSE Append(returned, DequeueResult(heap))
  /\ lastDequeue' = [called |-> TRUE, before |-> heap,
                     after |-> DequeueHeap(heap, compare),
                     result |-> DequeueResult(heap)]
  /\ UNCHANGED << compare, enqueued, visualVars >>

(* a queue with either comparator, in a visual that handles no update *)
InitQueue ==
  /\ VisualFields
  /\ NewQueue
  /\ compare \in Comparators
  /\ workerOk = FALSE
  /\ persistedState = NoPersistedState
  /\ dataView = <<>>

NextQueue == (\E priority \in Priorities : Enqueue(priority)) \/ Dequeue

SpecQueue == InitQueue /\ [][NextQueue]_vars

(* the priority the heap h holds for an item *)
PriorityOf(h, item) ==
  h[CHOOSE i \in 1..Len(h) : h[i].item = item].priority

(* C27: after any sequence of enqueue and dequeue calls, dequeue returns   *)
(* an item whose priority is extreme among the items stored at the call:   *)
(* the least with the default comparator, the greatest with the            *)
(* comparator a > b.                                                       *)
C27_PriorityQueueOrder ==
  (lastDequeue.called /\ lastDequeue.before # <<>>) =>
     /\ \E i \in 1..Len(lastDequeue.before) :
           lastDequeue.before[i].item = lastDequeue.result
     /\ \A i \in 1..Len(lastDequeue.before) :
           IF compare = "lt"
           THEN PriorityOf(lastDequeue.before, lastDequeue.result)
                  <= lastDequeue.before[i].priority
           ELSE PriorityOf(lastDequeue.before, lastDequeue.result)
                  >= lastDequeue.before[i].priority

(* a second dequeue, under the comparator a > b, from a queue of four      *)
(* items of three different priorities                                     *)
C27_Witness ==
  /\ lastDequeue.called
  /\ compare = "gt"
  /\ Len(returned) >= 2
  /\ Len(lastDequeue.before) = 4
  /\ Cardinality({ lastDequeue.before[i].priority :
                     i \in 1..Len(lastDequeue.before) }) = 3

(* the items the heap stores *)
Stored == { heap[i].item : i \in 1..Len(heap) }

(* no item occurs twice in a sequence *)
NoRepeat(seq) == \A i \in DOMAIN seq, j \in DOMAIN seq : seq[i] = seq[j] => i = j

(* C30: after any sequence of enqueue and dequeue calls, size() is the     *)
(* number of enqueues minus the number of dequeues that returned an item;  *)
(* every enqueued item is either stored or was returned, once; a dequeue   *)
(* on an empty queue returns undefined and leaves the queue empty.         *)
C30_PriorityQueueConservation ==
  /\ Size(heap) = Len(enqueued) - Len(returned)
  /\ Stored \cup Range(returned) = Range(enqueued)
  /\ Stored \cap Range(returned) = {}
  /\ NoRepeat(returned)
  /\ Cardinality(Stored) = Len(heap)
  /\ (lastDequeue.called /\ lastDequeue.before = <<>>) =>
        (lastDequeue.result = Undefined /\ lastDequeue.after = <<>>)
  /\ (lastDequeue.called /\ lastDequeue.before # <<>>) =>
        lastDequeue.result # Undefined

(* dequeue was called on an emptied queue after items had been returned,   *)
(* and items were enqueued again since                                     *)
C30_Witness ==
  /\ lastDequeue.called
  /\ lastDequeue.before = <<>>
  /\ Len(returned) >= 2
  /\ Size(heap) >= 2

----------------------------------------------------------------------------
(* What the full-project and the task-scoped classification always give    *)

(* C28: after a full-project run on an acyclic graph every task has        *)
(* earliestReqStart at or after its actual start and latestReqFinish at or *)
(* before its actual finish, so totalFloat is never positive; no task is   *)
(* near-critical, whatever the threshold, and every task is exactly one of *)
(* violating and critical by float.                                        *)
C28_FloatNeverPositive ==
  FullRunDone =>
     \A id \in DOMAIN taskIdToTask :
        \A t \in {taskIdToTask[id]} :
           /\ t.earliestReqStart >= StartOf(id)
           /\ t.latestReqFinish <= FinishOf(id)
           /\ t.totalFloat <= 0
           /\ ~t.isNearCritical
           /\ t.violatesConstraints # t.isCriticalByFloat

(* a run with the threshold above the tolerance where a relationship       *)
(* leaves its predecessor a gap above the tolerance and within the         *)
(* threshold: the predecessor has float 0 and is not near-critical         *)
C28_Witness ==
  /\ FullRunDone
  /\ floatThreshold = MaxThreshold
  /\ \E i \in TaskRelationships :
        /\ ImpliedFinish(i) - FinishOf(relationships[i].predecessorId)
             > FloatTol
        /\ ImpliedFinish(i) - FinishOf(relationships[i].predecessorId)
             <= floatThreshold
        /\ taskIdToTask[relationships[i].predecessorId].totalFloat = 0
        /\ taskIdToTask[relationships[i].predecessorId].isCriticalByFloat
  /\ \E id \in DOMAIN taskIdToTask : taskIdToTask[id].violatesConstraints

(* C29: after a task-scoped run on an acyclic graph every task of the      *)
(* closure, not only the selected one, has totalFloat 0 and is critical by *)
(* float and critical, and no task is near-critical, whatever the          *)
(* threshold and whatever the full-project classification gave the task.   *)
C29_ScopedRunsMarkClosure ==
  ScopedRunDone =>
     /\ \A id \in ChosenClosure \cap DOMAIN taskIdToTask :
           /\ taskIdToTask[id].totalFloat = 0
           /\ taskIdToTask[id].isCriticalByFloat
           /\ taskIdToTask[id].isCritical
     /\ \A id \in DOMAIN taskIdToTask : ~taskIdToTask[id].isNearCritical

(* a scoped run with the threshold above the tolerance whose closure holds *)
(* a task other than the selected one that the full-project classification *)
(* finds violating, with a float below the negated tolerance               *)
C29_Witness ==
  /\ ScopedRunDone
  /\ floatThreshold = MaxThreshold
  /\ \A full \in {FullProject(dataView)} :
        \E id \in NonSeed(ChosenClosure) :
           /\ full.tasks[id].violatesConstraints
           /\ full.tasks[id].totalFloat < 0 - FloatTol
           /\ ~full.tasks[id].isCritical
           /\ taskIdToTask[id].isCritical

====
